---- MODULE Spec2Model ----
(***************************************************************************)
(* Invoice pipeline of the eurosec backend: the PDF rasterizer that owns   *)
(* the shared headless browser (services/pdf.service.js), the remote file  *)
(* uploader with its readiness poll (services/shopifyFile.service.js), the *)
(* invoice coordinator and the POST /print-quote and /print-quote/from-    *)
(* draft handlers (routes/print-quote/index.js), and the draft             *)
(* order service (services/draftOrder.service.js) with the cart lookup     *)
(* (services/cart.service.js), the POST /draft-orders handler and the POST  *)
(* /send-quote handler (routes/send-quote/index.js) with sendInvoice, and   *)
(* the invoice data derived from a draft order: its two projections, the   *)
(* invoice number of the document and the one of the upload filename.      *)
(***************************************************************************)
EXTENDS Integers, FiniteSets, Sequences, TLC

(***************************************************************************)
(* Bounds                                                                  *)
(***************************************************************************)
\* concurrent renderHtmlToPdf calls on the one PdfService
NumTasks == 2

Tasks == 1..NumTasks
\* every task launches at most once, so browser ids never exceed NumTasks
BrowserIds == 1..NumTasks
NoBrowser == 0

VARIABLES
    \* ---- PdfService (rasterizer) ----
    browser,      \* this.browser: NoBrowser (null) or the id of a launched browser
    launched,     \* number of browsers puppeteer.launch has produced so far
    connected,    \* ids of the browsers whose process is running (isConnected())
    pc,           \* position of each renderHtmlToPdf call
    got,          \* the browser each call received from getBrowser()
    pageOf,       \* the browser on which the call's page is open, NoBrowser if none
    pcClose,      \* position of the closeBrowser() call in progress
    closeTarget,  \* the browser object closeBrowser() called close() on
    closeVia,     \* "direct" or "hook": who called closeBrowser()
    shutdown,     \* the application is closing: the onClose hook has been entered
    hookDone,     \* the onClose hook has returned
    \* ---- ShopifyFileService (uploader) ----
    adminClient,  \* fastify.shopify.admin: TRUE when the Admin API client exists
    upCall,       \* the uploader method called: "uploadPdf" or "waitForFileUrl"
    upPc,         \* position of that call
    upMeta,       \* metadata.alt handed to uploadPdf
    stagedUpload, \* the staged target createStagedUpload returned
    file,         \* the file record createFileRecord returned
    maxRetries,   \* waitForFileUrl's maxRetries
    attempts,     \* waitForFileUrl's attempts counter
    polls,        \* status queries issued by waitForFileUrl
    sleeps,       \* delays waitForFileUrl has started
    issued,       \* the remote calls issued, in order
    fileUrl,      \* what waitForFileUrl returned
    upReturn,     \* what uploadPdf returned
    upError,      \* the error the call failed with
    upWrapped,    \* the error went through uploadPdf's catch
    pendingPrefix,\* number of leading polls that observed UPLOADED/PROCESSING
    firstOther,   \* the first poll response that was not UPLOADED/PROCESSING
    readyAt,      \* number of the first poll that observed fileStatus READY
    readyUrlAt,   \* number of the first poll that observed READY with a url
    failedAt,     \* number of the first poll that observed fileStatus FAILED
    phaseOk,      \* the phases of the call that have succeeded
    \* ---- InvoicePdfService (coordinator) and POST /print-quote ----
    servicesOk,   \* fastify.services holds the services (not the null placeholders)
    bccEmail,     \* fastify.config.invoice.bccEmail is set
    reqKind,      \* "printQuote": POST /print-quote; "fromDraft": POST /print-quote/
                  \* from-draft; "direct": generateAndAttachPdf called
    hPc,          \* position of the request handler and of its background task
    draftOrder,   \* the draftOrder handed to generateAndAttachPdf
    replyCode,    \* status code of the response sent, 0 before
    replyBody,    \* status field of the response body
    replyUrl,     \* url field of the response body, NoKey when the body has none
    replies,      \* number of responses sent for the request
    gaResult,     \* what generateAndAttachPdf resolved with
    gaThrew,      \* an exception left generateAndAttachPdf
    stepFailed,   \* the step of generateAndAttachPdf or of the background task that failed
    errorLogs,    \* the error messages logged
    unhandled,    \* a rejection left the background task
    metafields,   \* the url attached as custom.quote_pdf (with custom.quote_pdf_generated_at)
    calls,        \* the draft-order mutations issued, in order
    \* ---- DraftOrderService (orchestrator) and POST /draft-orders ----
    orchCall,     \* the entry called: "createDraftOrder", "draftOrders", "mergeAddress"
    orchPc,       \* position of that call
    payload,      \* the request body handed to processCheckoutData
    cart,         \* what fetchCartByToken ended with
    cartData,     \* the data handed to createDraftOrder
    companyContactId, \* createDraftOrder's companyContactId
    input,        \* the DraftOrderInput submitted with draftOrderCreate
    orchIssued,   \* the remote calls the service issued, in order
    orchError,    \* the message of the error the call failed with
    orchReturn,   \* the draft order the call returned
    httpReply,    \* the response of POST /draft-orders
    merged,       \* the last mergeAddress call: its arguments and its result
    remote,       \* what the platform answered to the contact lookup and to draftOrderCreate
    body,         \* request.body of the POST /draft-orders request received
    quote,        \* request.body of the POST /send-quote request received
    variables,    \* the variables of the draftOrderInvoiceSend mutation issued
    \* ---- the invoice data of one draft order ----
    invPc,        \* position: the projection, the template data, the filename
    flow,         \* "printQuote": the createDraftOrder result; "fromDraft": the
                  \* fetchDraftOrderById result
    remoteOrder,  \* the draft order as the platform holds it
    order,        \* the draftOrder handed to generateAndAttachPdf
    templateData, \* what prepareInvoiceTemplateData returned
    fileNumber    \* the invoiceNumber of generateAndAttachPdf's filename and alt text

rasterVars == <<browser, launched, connected, pc, got, pageOf,
                pcClose, closeTarget, closeVia, shutdown, hookDone>>

upVars == <<adminClient, upCall, upPc, upMeta, stagedUpload, file, maxRetries,
            attempts, polls, sleeps, issued, fileUrl, upReturn, upError, upWrapped,
            pendingPrefix, firstOther, readyAt, readyUrlAt, failedAt, phaseOk>>

coordVars == <<servicesOk, bccEmail, reqKind, hPc, draftOrder, replyCode, replyBody, replyUrl,
               replies,
               gaResult, gaThrew, stepFailed, errorLogs, unhandled, metafields, calls>>

orchVars == <<orchCall, orchPc, payload, cart, cartData, companyContactId, input,
              orchIssued, orchError, orchReturn, httpReply, merged, remote,
              body, quote, variables>>

invVars == <<invPc, flow, remoteOrder, order, templateData, fileNumber>>

vars == <<rasterVars, upVars, coordVars, orchVars, invVars>>

\* what the rasterizer's steps leave alone
outsideRaster == <<upVars, coordVars, orchVars, invVars>>
\* what the uploader's steps leave alone
outsideUploader == <<rasterVars, coordVars, orchVars, invVars>>
\* what the draft order service's steps leave alone
outsideOrch == <<rasterVars, upVars, coordVars, invVars>>
\* what the derivation of the invoice data leaves alone
outsideInv == <<rasterVars, upVars, coordVars, orchVars>>

(***************************************************************************)
(* PdfService: constructor                                                 *)
(***************************************************************************)
RasterInit ==
    /\ browser = NoBrowser
    /\ launched = 0
    /\ connected = {}
    /\ pc = [t \in Tasks |-> "idle"]
    /\ got = [t \in Tasks |-> NoBrowser]
    /\ pageOf = [t \in Tasks |-> NoBrowser]
    /\ pcClose = "idle"
    /\ closeTarget = NoBrowser
    /\ closeVia = "none"
    /\ shutdown = FALSE
    /\ hookDone = FALSE

\* this.browser && this.browser.isConnected()
browserUsable == browser # NoBrowser /\ browser \in connected

closeUnchanged == UNCHANGED <<pcClose, closeTarget, closeVia, shutdown, hookDone>>

(***************************************************************************)
(* getBrowser(), entered from renderHtmlToPdf                              *)
(***************************************************************************)
\* the test of line 23 and, when it holds, the call of puppeteer.launch:
\* the caller is suspended on the launch; otherwise this.browser is returned
getBrowser(t) ==
    /\ pc[t] = "idle"
    /\ IF ~browserUsable
          THEN /\ pc' = [pc EXCEPT ![t] = "launching"]
               /\ UNCHANGED got
          ELSE /\ pc' = [pc EXCEPT ![t] = "newPage"]
               /\ got' = [got EXCEPT ![t] = browser]
    /\ UNCHANGED <<browser, launched, connected, pageOf>>
    /\ closeUnchanged

\* renderHtmlToPdf(html) called on the service, line 98; calls that arrive
\* after the application began to close are not taken
getBrowserEnter(t) ==
    /\ ~shutdown
    /\ getBrowser(t)
    /\ UNCHANGED outsideRaster

\* puppeteer.launch resolves: this.browser = <new browser>; return this.browser
launchResolve(t) ==
    /\ pc[t] = "launching"
    /\ launched' = launched + 1
    /\ connected' = connected \cup {launched + 1}
    /\ browser' = launched + 1
    /\ got' = [got EXCEPT ![t] = launched + 1]
    /\ pc' = [pc EXCEPT ![t] = "newPage"]
    /\ UNCHANGED pageOf
    /\ closeUnchanged
    /\ UNCHANGED outsideRaster

\* puppeteer.launch rejects: getBrowser and renderHtmlToPdf reject
launchReject(t) ==
    /\ pc[t] = "launching"
    /\ pc' = [pc EXCEPT ![t] = "failed"]
    /\ UNCHANGED <<browser, launched, connected, got, pageOf>>
    /\ closeUnchanged
    /\ UNCHANGED outsideRaster

(***************************************************************************)
(* renderHtmlToPdf(html)                                                   *)
(***************************************************************************)
\* browser.newPage(): opens a page on a running browser, rejects on a dead one
newPage(t) ==
    /\ pc[t] = "newPage"
    /\ IF got[t] \in connected
          THEN /\ pageOf' = [pageOf EXCEPT ![t] = got[t]]
               /\ pc' = [pc EXCEPT ![t] = "setContent"]
          ELSE /\ pc' = [pc EXCEPT ![t] = "failed"]
               /\ UNCHANGED pageOf
    /\ UNCHANGED <<browser, launched, connected, got>>
    /\ closeUnchanged
    /\ UNCHANGED outsideRaster

\* page.setContent resolves
setContentOk(t) ==
    /\ pc[t] = "setContent"
    /\ pageOf[t] # NoBrowser
    /\ pc' = [pc EXCEPT ![t] = "pdf"]
    /\ UNCHANGED <<browser, launched, connected, got, pageOf>>
    /\ closeUnchanged
    /\ UNCHANGED outsideRaster

\* page.setContent rejects (navigation timeout, or the browser went away):
\* the rejection leaves renderHtmlToPdf at line 102, page.close() is not run
setContentFail(t) ==
    /\ pc[t] = "setContent"
    /\ pc' = [pc EXCEPT ![t] = "failed"]
    /\ UNCHANGED <<browser, launched, connected, got, pageOf>>
    /\ closeUnchanged
    /\ UNCHANGED outsideRaster

\* page.pdf resolves
pdfOk(t) ==
    /\ pc[t] = "pdf"
    /\ pageOf[t] # NoBrowser
    /\ pc' = [pc EXCEPT ![t] = "pageClose"]
    /\ UNCHANGED <<browser, launched, connected, got, pageOf>>
    /\ closeUnchanged
    /\ UNCHANGED outsideRaster

\* page.pdf rejects: the rejection leaves renderHtmlToPdf at line 107
pdfFail(t) ==
    /\ pc[t] = "pdf"
    /\ pc' = [pc EXCEPT ![t] = "failed"]
    /\ UNCHANGED <<browser, launched, connected, got, pageOf>>
    /\ closeUnchanged
    /\ UNCHANGED outsideRaster

\* await page.close(); return pdf
pageClose(t) ==
    /\ pc[t] = "pageClose"
    /\ pageOf' = [pageOf EXCEPT ![t] = NoBrowser]
    /\ pc' = [pc EXCEPT ![t] = "done"]
    /\ UNCHANGED <<browser, launched, connected, got>>
    /\ closeUnchanged
    /\ UNCHANGED outsideRaster

(***************************************************************************)
(* closeBrowser() and the services plugin's onClose hook                   *)
(***************************************************************************)
\* closing a browser takes its pages with it
pagesWithout(b) == [t \in Tasks |-> IF pageOf[t] = b THEN NoBrowser ELSE pageOf[t]]

\* lines 637-639: the test, and when it holds the call of this.browser.close()
closeBrowserEnter(via) ==
    /\ closeVia' = via
    /\ IF browserUsable
          THEN /\ pcClose' = "closing"
               /\ closeTarget' = browser
          ELSE /\ pcClose' = "returned"
               /\ UNCHANGED closeTarget

\* closeBrowser() called on the service
closeBrowser ==
    /\ pcClose = "idle"
    /\ closeBrowserEnter("direct")
    /\ UNCHANGED <<browser, launched, connected, pc, got, pageOf, shutdown, hookDone, outsideRaster>>

\* fastify's onClose hook: if (pdfService && pdfService.browser) await closeBrowser()
onClose ==
    /\ pcClose = "idle"
    /\ ~shutdown
    /\ shutdown' = TRUE
    /\ IF browser # NoBrowser
          THEN /\ closeBrowserEnter("hook")
               /\ UNCHANGED hookDone
          ELSE /\ hookDone' = TRUE
               /\ UNCHANGED <<pcClose, closeTarget, closeVia>>
    /\ UNCHANGED <<browser, launched, connected, pc, got, pageOf, outsideRaster>>

\* browser.close() takes effect: the browser process exits
browserClosed ==
    /\ pcClose = "closing"
    /\ connected' = connected \ {closeTarget}
    /\ pageOf' = pagesWithout(closeTarget)
    /\ pcClose' = "resume"
    /\ UNCHANGED <<browser, launched, pc, got, closeTarget, closeVia, shutdown, hookDone, outsideRaster>>

\* line 640, the continuation of await this.browser.close(): this.browser = null
closeResume ==
    /\ pcClose = "resume"
    /\ browser' = NoBrowser
    /\ pcClose' = "returned"
    /\ UNCHANGED <<launched, connected, pc, got, pageOf, closeTarget, closeVia, shutdown, hookDone, outsideRaster>>

\* the caller of closeBrowser() continues; the hook returns after its await
closeReturn ==
    /\ pcClose = "returned"
    /\ pcClose' = "idle"
    /\ closeVia' = "none"
    /\ hookDone' = (hookDone \/ closeVia = "hook")
    /\ UNCHANGED <<browser, launched, connected, pc, got, pageOf, closeTarget, shutdown, outsideRaster>>

\* the environment: a browser process crashes or is killed
browserDisconnect(b) ==
    /\ b \in connected
    /\ ~(pcClose = "closing" /\ closeTarget = b)
    /\ connected' = connected \ {b}
    /\ pageOf' = pagesWithout(b)
    /\ UNCHANGED <<browser, launched, pc, got>>
    /\ closeUnchanged
    /\ UNCHANGED outsideRaster

RasterNext ==
    \/ \E t \in Tasks : getBrowserEnter(t)
    \/ \E t \in Tasks : launchResolve(t)
    \/ \E t \in Tasks : launchReject(t)
    \/ \E t \in Tasks : newPage(t)
    \/ \E t \in Tasks : setContentOk(t)
    \/ \E t \in Tasks : setContentFail(t)
    \/ \E t \in Tasks : pdfOk(t)
    \/ \E t \in Tasks : pdfFail(t)
    \/ \E t \in Tasks : pageClose(t)
    \/ closeBrowser
    \/ onClose
    \/ browserClosed
    \/ closeResume
    \/ closeReturn
    \/ \E b \in BrowserIds : browserDisconnect(b)

RasterTypeOK ==
    /\ browser \in {NoBrowser} \cup BrowserIds
    /\ launched \in 0..NumTasks
    /\ connected \subseteq 1..launched
    /\ pc \in [Tasks -> {"idle", "launching", "newPage", "setContent", "pdf",
                         "pageClose", "done", "failed"}]
    /\ pcClose \in {"idle", "closing", "resume", "returned"}

(***************************************************************************)
(* ShopifyFileService                                                      *)
(***************************************************************************)
\* waitForFileUrl(fileId, maxRetries = 10, delayMs = 1000)
DefaultMaxRetries == 10
\* largest maxRetries handed to a direct waitForFileUrl call
MaxRetriesArg == 3

NoUrl == "null"
Urls == {"cdn-url"}
NoAlt == "undefined"
Alts == {NoAlt, "VAT Invoice INV-EE-1", "VAT Invoice INV-EE-<now>"}
Filename == "vat_invoice_INV-EE-1.pdf"
NoTarget == [url |-> NoUrl, resourceUrl |-> NoUrl]
StagedTarget == [url |-> "staged-url", resourceUrl |-> "resource-url"]
NoFile == [id |-> "null", url |-> NoUrl, alt |-> NoAlt]
NoResponse == [fileStatus |-> "none", url |-> NoUrl]

\* response.data?.node of the status query: a GenericFile, or null (NODE_NULL)
FileStatuses == {"UPLOADED", "PROCESSING", "READY", "FAILED"}
PollResponses ==
    {[fileStatus |-> st, url |-> u] : st \in FileStatuses, u \in Urls \cup {NoUrl}}
        \cup {[fileStatus |-> "NODE_NULL", url |-> NoUrl]}

UploaderInit ==
    /\ adminClient \in BOOLEAN
    /\ upCall = "none"
    /\ upPc = "idle"
    /\ upMeta = NoAlt
    /\ stagedUpload = NoTarget
    /\ file = NoFile
    /\ maxRetries = 0
    /\ attempts = 0
    /\ polls = 0
    /\ sleeps = 0
    /\ issued = <<>>
    /\ fileUrl = NoUrl
    /\ upReturn = NoFile
    /\ upError = "none"
    /\ upWrapped = FALSE
    /\ pendingPrefix = 0
    /\ firstOther = NoResponse
    /\ readyAt = 0
    /\ readyUrlAt = 0
    /\ failedAt = 0
    /\ phaseOk = {}

pollGhosts == <<pendingPrefix, firstOther, readyAt, readyUrlAt, failedAt>>

\* an error leaves the call: inside uploadPdf's try it is caught and rethrown
\* as 'Shopify file upload failed: ...' (lines 55-58)
upThrow(kind) ==
    /\ upPc' = "failed"
    /\ upError' = kind
    /\ upWrapped' = (upCall = "uploadPdf")

\* uploadPdf(pdfBuffer, filename, metadata): lines 25-31
uploadPdfCall(alt) ==
    /\ upPc = "idle"
    /\ upCall' = "uploadPdf"
    /\ upMeta' = alt
    /\ IF ~adminClient
          THEN /\ upPc' = "failed"
               /\ upError' = "not_configured"
          ELSE /\ upPc' = "createStagedUpload"
               /\ UNCHANGED upError
    /\ UNCHANGED <<adminClient, stagedUpload, file, maxRetries, attempts, polls, sleeps,
                   issued, fileUrl, upReturn, upWrapped, pollGhosts, phaseOk>>

\* uploadPdf called on the service
uploadPdf(alt) ==
    /\ uploadPdfCall(alt)
    /\ UNCHANGED outsideUploader

\* createStagedUpload(filename): the stagedUploadsCreate mutation and its result
StagedResponses == {"ok", "userErrors", "noTarget", "rejected"}
createStagedUpload(resp) ==
    /\ upPc = "createStagedUpload"
    /\ issued' = Append(issued, "stagedUploadsCreate")
    /\ IF resp = "ok"
          THEN /\ stagedUpload' = StagedTarget
               /\ upPc' = "uploadToStagedUrl"
               /\ phaseOk' = phaseOk \cup {"createStagedUpload"}
               /\ UNCHANGED <<upError, upWrapped>>
          ELSE /\ upThrow(IF resp = "userErrors" THEN "staged_upload_failed"
                          ELSE IF resp = "noTarget" THEN "no_staged_target"
                          ELSE "request_rejected")
               /\ UNCHANGED <<stagedUpload, phaseOk>>
    /\ UNCHANGED <<adminClient, upCall, upMeta, file, maxRetries, attempts, polls, sleeps,
                   fileUrl, upReturn, pollGhosts, outsideUploader>>

\* uploadToStagedUrl(pdfBuffer, stagedUpload): the multipart POST to the slot
uploadToStagedUrl(ok) ==
    /\ upPc = "uploadToStagedUrl"
    /\ issued' = Append(issued, "stagedPost")
    /\ IF ok
          THEN /\ upPc' = "createFileRecord"
               /\ phaseOk' = phaseOk \cup {"uploadToStagedUrl"}
               /\ UNCHANGED <<upError, upWrapped>>
          ELSE /\ upThrow("transport_error")
               /\ UNCHANGED phaseOk
    /\ UNCHANGED <<adminClient, upCall, upMeta, stagedUpload, file, maxRetries, attempts,
                   polls, sleeps, fileUrl, upReturn, pollGhosts, outsideUploader>>

\* line 250: alt: metadata.alt || `Quote PDF - ${filename}`
fileAlt(metaAlt, filename) ==
    IF metaAlt # NoAlt THEN metaAlt ELSE "Quote PDF - " \o filename

\* lines 41-44: uploadPdf calls createFileRecord(resourceUrl, filename) with no
\* third argument, so createFileRecord's metadata is its default {}
recordMetaAlt(callerAlt) == NoAlt

\* createFileRecord(resourceUrl, filename, metadata): the fileCreate mutation;
\* on success uploadPdf goes on to waitForFileUrl(file.id) with the defaults
RecordResponses == {"ok", "userErrors", "noFile", "rejected"}
createFileRecord(resp, recordUrl) ==
    /\ upPc = "createFileRecord"
    /\ issued' = Append(issued, "fileCreate")
    /\ IF resp = "ok"
          THEN /\ file' = [id |-> "file-1", url |-> recordUrl,
                           alt |-> fileAlt(recordMetaAlt(upMeta), Filename)]
               /\ maxRetries' = DefaultMaxRetries
               /\ upPc' = "waitForFileUrl"
               /\ phaseOk' = phaseOk \cup {"createFileRecord"}
               /\ UNCHANGED <<upError, upWrapped>>
          ELSE /\ upThrow(IF resp = "userErrors" THEN "file_creation_failed"
                          ELSE IF resp = "noFile" THEN "no_file_returned"
                          ELSE "request_rejected")
               /\ UNCHANGED <<file, maxRetries, phaseOk>>
    /\ UNCHANGED <<adminClient, upCall, upMeta, stagedUpload, attempts, polls, sleeps,
                   fileUrl, upReturn, pollGhosts, outsideUploader>>

\* line 89: while (attempts < maxRetries)
moreAttempts_offByOne(a, m) == a <= m
moreAttempts(a, m) == a < m

\* line 110: if (attempts < maxRetries), the delay before the next poll
sleepBeforeRetry(a, m) == a < m

\* lines 97-118: what one poll response makes waitForFileUrl do
pollOutcome_readyIgnored(f) ==
    IF f.fileStatus = "FAILED" THEN "throw" ELSE "retry"
pollOutcome_failedIgnored(f) ==
    IF f.fileStatus = "READY" /\ f.url # NoUrl THEN "return" ELSE "retry"
pollOutcome(f) ==
    IF f.fileStatus = "READY" /\ f.url # NoUrl THEN "return"
    ELSE IF f.fileStatus = "FAILED" THEN "throw"
    ELSE "retry"

\* lines 51-54: return { ...file, url: fileUrl }
uploadResult_recordUrl(f, url) == f
uploadResult(f, url) == [f EXCEPT !.url = url]

\* waitForFileUrl(fileId, maxRetries, delayMs) called on the service
waitForFileUrl(m) ==
    /\ upPc = "idle"
    /\ upCall' = "waitForFileUrl"
    /\ maxRetries' = m
    /\ upPc' = "waitForFileUrl"
    /\ UNCHANGED <<adminClient, upMeta, stagedUpload, file, attempts, polls, sleeps, issued,
                   fileUrl, upReturn, upError, upWrapped, pollGhosts, phaseOk, outsideUploader>>

\* the loop test of line 89; when it fails, the throw of lines 121-123
loopTest(a) ==
    IF moreAttempts(a, maxRetries)
       THEN /\ upPc' = "poll"
            /\ UNCHANGED <<upError, upWrapped>>
       ELSE upThrow("timeout")

\* line 88: let attempts = 0, and the first loop test
waitForFileUrlEnter ==
    /\ upPc = "waitForFileUrl"
    /\ attempts' = 0
    /\ loopTest(0)
    /\ UNCHANGED <<adminClient, upCall, upMeta, stagedUpload, file, maxRetries, polls,
                   sleeps, issued, fileUrl, upReturn, pollGhosts, phaseOk, outsideUploader>>

pendingStatus(f) == f.fileStatus \in {"UPLOADED", "PROCESSING"}

\* what the n-th poll observed
observe(f, n) ==
    /\ pendingPrefix' = IF firstOther = NoResponse /\ pendingStatus(f)
                           THEN pendingPrefix + 1 ELSE pendingPrefix
    /\ firstOther' = IF firstOther = NoResponse /\ ~pendingStatus(f)
                        THEN f ELSE firstOther
    /\ readyAt' = IF readyAt = 0 /\ f.fileStatus = "READY" THEN n ELSE readyAt
    /\ readyUrlAt' = IF readyUrlAt = 0 /\ f.fileStatus = "READY" /\ f.url # NoUrl
                        THEN n ELSE readyUrlAt
    /\ failedAt' = IF failedAt = 0 /\ f.fileStatus = "FAILED" THEN n ELSE failedAt

\* one pass of the loop body, lines 90-118: the status query, its response f
\* and what follows up to the next suspension; inside uploadPdf a returned url
\* is the end of uploadPdf as well (lines 47-54)
pollFile(f) ==
    /\ upPc = "poll"
    /\ adminClient
    /\ polls' = polls + 1
    /\ issued' = Append(issued, "fileStatus")
    /\ observe(f, polls + 1)
    /\ CASE pollOutcome(f) = "return" ->
              /\ fileUrl' = f.url
              /\ upReturn' = IF upCall = "uploadPdf" THEN uploadResult(file, f.url)
                             ELSE upReturn
              /\ upPc' = "done"
              /\ phaseOk' = phaseOk \cup {"waitForFileUrl"}
              /\ UNCHANGED <<attempts, sleeps, upError, upWrapped>>
         [] pollOutcome(f) = "throw" ->
              /\ upThrow("processing_failed")
              /\ UNCHANGED <<attempts, sleeps, fileUrl, upReturn, phaseOk>>
         [] OTHER ->
              /\ attempts' = attempts + 1
              /\ IF sleepBeforeRetry(attempts + 1, maxRetries)
                    THEN /\ upPc' = "sleep"
                         /\ sleeps' = sleeps + 1
                         /\ UNCHANGED <<upError, upWrapped>>
                    ELSE /\ loopTest(attempts + 1)
                         /\ UNCHANGED sleeps
              /\ UNCHANGED <<fileUrl, upReturn, phaseOk>>
    /\ UNCHANGED <<adminClient, upCall, upMeta, stagedUpload, file, maxRetries,
                   outsideUploader>>

\* the status query rejects (transport error); with no Admin API client the
\* call this.adminClient.request itself throws and no query is issued
pollRejected ==
    /\ upPc = "poll"
    /\ IF adminClient
          THEN /\ polls' = polls + 1
               /\ issued' = Append(issued, "fileStatus")
          ELSE UNCHANGED <<polls, issued>>
    /\ firstOther' = IF firstOther = NoResponse
                        THEN [fileStatus |-> "REJECTED", url |-> NoUrl] ELSE firstOther
    /\ upThrow("request_rejected")
    /\ UNCHANGED <<adminClient, upCall, upMeta, stagedUpload, file, maxRetries, attempts,
                   sleeps, fileUrl, upReturn, pendingPrefix, readyAt, readyUrlAt, failedAt, phaseOk,
                   outsideUploader>>

\* line 117: the delay is over, back to the loop test
sleepDone ==
    /\ upPc = "sleep"
    /\ loopTest(attempts)
    /\ UNCHANGED <<adminClient, upCall, upMeta, stagedUpload, file, maxRetries, attempts,
                   polls, sleeps, issued, fileUrl, upReturn, pollGhosts, phaseOk, outsideUploader>>

RecordUrls == {NoUrl, "record-url"}

UploaderNext ==
    \/ \E alt \in Alts : uploadPdf(alt)
    \/ \E resp \in StagedResponses : createStagedUpload(resp)
    \/ \E ok \in BOOLEAN : uploadToStagedUrl(ok)
    \/ \E resp \in RecordResponses, u \in RecordUrls : createFileRecord(resp, u)
    \/ \E m \in 0..MaxRetriesArg : waitForFileUrl(m)
    \/ waitForFileUrlEnter
    \/ \E f \in PollResponses : pollFile(f)
    \/ pollRejected
    \/ sleepDone

UploaderTypeOK ==
    /\ upPc \in {"idle", "createStagedUpload", "uploadToStagedUrl", "createFileRecord",
                 "waitForFileUrl", "poll", "sleep", "done", "failed"}
    /\ attempts \in 0..DefaultMaxRetries
    /\ polls \in 0..DefaultMaxRetries

(***************************************************************************)
(* DraftOrderService and CartService: the values a request carries         *)
(***************************************************************************)
\* cart lines of a request body or of a live cart
MaxLines == 1

\* undefined (a key the object does not have, an argument not passed)
Undef == "undefined"
Null == "null"

\* JavaScript truthiness of the string-or-absent values the services test
truthy(v) == v \notin {Undef, Null, ""}

\* a || b
jsOr(a, b) == IF truthy(a) THEN a ELSE b

AddressFields == {"firstName", "lastName", "address1", "address2", "city", "province",
                  "provinceCode", "country", "countryCode", "zip", "phone", "company"}

\* an address object whose fields in S hold v and whose other fields hold e
\* (Undef: the key is absent); defined = FALSE is the value undefined
address(S, v, e) ==
    [defined      |-> TRUE,
     firstName    |-> IF "firstName" \in S THEN v ELSE e,
     lastName     |-> IF "lastName" \in S THEN v ELSE e,
     address1     |-> IF "address1" \in S THEN v ELSE e,
     address2     |-> IF "address2" \in S THEN v ELSE e,
     city         |-> IF "city" \in S THEN v ELSE e,
     province     |-> IF "province" \in S THEN v ELSE e,
     provinceCode |-> IF "provinceCode" \in S THEN v ELSE e,
     country      |-> IF "country" \in S THEN v ELSE e,
     countryCode  |-> IF "countryCode" \in S THEN v ELSE e,
     zip          |-> IF "zip" \in S THEN v ELSE e,
     phone        |-> IF "phone" \in S THEN v ELSE e,
     company      |-> IF "company" \in S THEN v ELSE e]

\* {}: an object without any address key
EmptyObject == address({}, Undef, Undef)
\* undefined in the place of an address: reading a field of it throws
Thrown == "TypeError"
NoAddress == [address({}, Thrown, Thrown) EXCEPT !.defined = FALSE]

\* shippingAddress of a request body: absent, {}, partly or fully filled
\* (checkoutPayloadSchema, part_003 66-82: an object of optional strings)
PayloadAddresses ==
    {NoAddress, EmptyObject,
     address({"address1", "city"}, "payload", Undef),
     address({"firstName", "city", "zip", "phone"}, "payload", ""),
     address(AddressFields, "payload", Undef)}

\* deliveryAddress of the live cart (cart.service.js 106-127): no delivery
\* group, or a MailingAddress whose unset fields are null
NoDelivery == [address({}, Null, Null) EXCEPT !.defined = FALSE]
DeliveryAddresses ==
    {NoDelivery,
     address({"address1", "zip"}, "live", Null),
     address(AddressFields, "live", Null)}

\* cartLines: the variant and the quantity of every line; present = FALSE is a
\* body or data object without cartLines
line(origin, i) == [variantId |-> origin, quantity |-> i]
lines(origin, n) == [present |-> TRUE, items |-> [i \in 1..n |-> line(origin, i)]]
NoLines == [present |-> FALSE, items |-> <<>>]

\* customer of a request body: absent, without id and email, or with both
NoCustomer == [defined |-> FALSE, id |-> Undef, email |-> Undef]
PayloadCustomers ==
    {NoCustomer,
     [defined |-> TRUE, id |-> Undef, email |-> Undef],
     [defined |-> TRUE, id |-> "gid://Customer/payload", email |-> "payload@example.com"]}

\* purchasingEntity of a request body: company id and location id
PurchasingEntities ==
    {[companyId |-> c, locationId |-> l] :
        c \in {Undef, "gid://Company/1"}, l \in {Undef, "gid://CompanyLocation/1"}}

\* cartToken of a request body
NoToken == Undef
CartTokens == {NoToken, "c1-token"}

\* billing address and note of a request body: a body carries the one exactly
\* when it carries the other
PayloadExtras ==
    {[billingAddress |-> NoAddress, note |-> Undef],
     [billingAddress |-> address({"city"}, "billing", Undef), note |-> "payload note"]}

\* the request bodies and data objects; linesFrom = 1 leaves out the bodies the
\* body schema rejects (cartLines required, minItems 1)
Payloads(linesFrom) ==
    {[cartToken |-> t, cartLines |-> l, customer |-> c, pricing |-> "payload pricing",
      shippingAddress |-> s, billingAddress |-> x.billingAddress, note |-> x.note,
      purchasingEntity |-> e] :
        t \in CartTokens,
        l \in {lines("payload", k) : k \in linesFrom..MaxLines}
                 \cup (IF linesFrom = 0 THEN {NoLines} ELSE {}),
        c \in PayloadCustomers,
        s \in PayloadAddresses,
        x \in PayloadExtras,
        e \in PurchasingEntities}

\* a cart line without the quantity key
NoQuantity == -1

\* cartLines the body schema rejects: empty, or one line that lacks quantity,
\* variantId or both
badLines(keys) ==
    [present |-> TRUE,
     items |-> <<[variantId |-> IF "variantId" \in keys THEN "payload" ELSE Undef,
                  quantity |-> IF "quantity" \in keys THEN 1 ELSE NoQuantity]>>]
RejectedLines ==
    {NoLines, lines("payload", 0), badLines({"variantId"}), badLines({"quantity"}),
     badLines({})}

\* part_003 9-43: cartLines is required, holds at least one item, and every
\* item has a quantity of at least 1 and a variantId
checkoutPayloadSchema_anyLines(b) == TRUE
checkoutPayloadSchema(b) ==
    /\ b.cartLines.present
    /\ Len(b.cartLines.items) >= 1
    /\ \A i \in DOMAIN b.cartLines.items :
          /\ b.cartLines.items[i].quantity # NoQuantity
          /\ b.cartLines.items[i].quantity >= 1
          /\ b.cartLines.items[i].variantId # Undef

\* the bodies POST /draft-orders receives: the ones the schema accepts and,
\* with and without a cart token, the ones it rejects
Bodies ==
    Payloads(1)
    \cup {[cartToken |-> t, cartLines |-> l, customer |-> NoCustomer,
            pricing |-> "payload pricing", shippingAddress |-> NoAddress,
            billingAddress |-> NoAddress, note |-> Undef,
            purchasingEntity |-> [companyId |-> Undef, locationId |-> Undef]] :
              t \in CartTokens, l \in RejectedLines}

NoPayload ==
    [cartToken |-> NoToken, cartLines |-> NoLines, customer |-> NoCustomer,
     pricing |-> Undef, shippingAddress |-> NoAddress, billingAddress |-> NoAddress,
     note |-> Undef, purchasingEntity |-> [companyId |-> Undef, locationId |-> Undef]]

\* emailOptions of sendInvoice, the email object of a POST /send-quote body
\* (send-quote/index.js 17-48): to, from, subject and customMessage absent,
\* empty or set; bcc absent, [] or a list of one address
NoBcc == [defined |-> FALSE, list |-> <<>>]
BccLists == {NoBcc, [defined |-> TRUE, list |-> <<>>],
             [defined |-> TRUE, list |-> <<"bcc@example.com">>]}
\* emailOptions = null, and the email key absent from a body
NoEmail ==
    [defined |-> FALSE, to |-> Undef, from |-> Undef, bcc |-> NoBcc, subject |-> Undef,
     customMessage |-> Undef]
EmailOptions ==
    {NoEmail}
    \cup {[defined |-> TRUE, to |-> t, from |-> f, bcc |-> b, subject |-> s,
            customMessage |-> m] :
              t \in {Undef, "", "to@example.com"}, f \in {Undef, "", "from@example.com"},
              b \in BccLists, s \in {Undef, "", "subject"}, m \in {Undef, "", "message"}}

DraftOrderId == "gid://shopify/DraftOrder/1"

\* send-quote/index.js 9-50: draftOrderId is required; to and from, when
\* present, have the format of an e-mail address
sendQuotePayloadSchema(b) ==
    /\ b.draftOrderId # Undef
    /\ b.email.to # "" /\ b.email.from # ""

\* the bodies POST /send-quote receives: with and without draftOrderId, the
\* email object absent or carrying to, bcc and subject
QuoteBodies ==
    {[draftOrderId |-> i, email |-> e] :
        i \in {Undef, DraftOrderId},
        e \in {o \in EmailOptions : o.from = Undef /\ o.customMessage = Undef}}
NoQuote == [draftOrderId |-> Undef, email |-> NoEmail]

\* buyerIdentity of a live cart: no customer and no email, a customer known
\* by the buyer's email only, a customer with an email of their own
Buyers ==
    {[customerId |-> Null, customerEmail |-> Null, buyerEmail |-> Null],
     [customerId |-> "gid://Customer/live", customerEmail |-> Null,
      buyerEmail |-> "buyer@example.com"],
     [customerId |-> "gid://Customer/live", customerEmail |-> "live@example.com",
      buyerEmail |-> Null]}

\* response.data.cart of the Storefront query (cart.service.js 36-130):
\* lines, buyerIdentity, delivery address and note
LiveCarts ==
    {[kind |-> "cart", lines |-> lines("live", k), buyer |-> b,
      deliveryAddress |-> d, note |-> n] :
        k \in 0..MaxLines, b \in Buyers, d \in DeliveryAddresses,
        n \in {Null, "live note"}}

\* what fetchCartByToken ends with when it hands over no cart
NoCart(kind) ==
    [kind |-> kind, lines |-> lines("live", 0),
     buyer |-> [customerId |-> Null, customerEmail |-> Null, buyerEmail |-> Null],
     deliveryAddress |-> NoDelivery, note |-> Null]

(***************************************************************************)
(* CartService.transformCartToPayload and DraftOrderService.mergeAddress   *)
(***************************************************************************)
\* cart.service.js 154-210: lines, customer, pricing, shipping address, note
transformCartToPayload(c) ==
    [cartLines |-> [present |-> TRUE,
                    items |-> [i \in DOMAIN c.lines.items |->
                                  [variantId |-> c.lines.items[i].variantId,
                                   quantity |-> c.lines.items[i].quantity]]],
     customer |-> [defined |-> TRUE,
                   id |-> IF c.buyer.customerId = Null THEN Undef ELSE c.buyer.customerId,
                   email |-> jsOr(c.buyer.customerEmail, c.buyer.buyerEmail)],
     pricing |-> "live pricing",
     shippingAddress |->
        [defined      |-> TRUE,
         firstName    |-> jsOr(c.deliveryAddress.firstName, ""),
         lastName     |-> jsOr(c.deliveryAddress.lastName, ""),
         address1     |-> jsOr(c.deliveryAddress.address1, ""),
         address2     |-> jsOr(c.deliveryAddress.address2, ""),
         city         |-> jsOr(c.deliveryAddress.city, ""),
         province     |-> jsOr(c.deliveryAddress.province, ""),
         provinceCode |-> jsOr(c.deliveryAddress.provinceCode, ""),
         country      |-> jsOr(c.deliveryAddress.country, ""),
         countryCode  |-> jsOr(c.deliveryAddress.countryCode, ""),
         zip          |-> jsOr(c.deliveryAddress.zip, ""),
         phone        |-> jsOr(c.deliveryAddress.phone, ""),
         company      |-> jsOr(c.deliveryAddress.company, "")],
     note |-> jsOr(c.note, Null)]

\* draftOrder.service.js 72-87; fallback = {} stands in for an argument that
\* is undefined
mergeAddress_wholesale(primary, fallbackArg) ==
    IF \E f \in AddressFields : truthy(primary[f])
       THEN primary
       ELSE IF fallbackArg.defined THEN fallbackArg ELSE EmptyObject
mergeAddress(primary, fallbackArg) ==
    LET fallback == IF fallbackArg.defined THEN fallbackArg ELSE EmptyObject
    IN [defined      |-> TRUE,
        firstName    |-> jsOr(jsOr(primary.firstName, fallback.firstName), ""),
        lastName     |-> jsOr(jsOr(primary.lastName, fallback.lastName), ""),
        address1     |-> jsOr(jsOr(primary.address1, fallback.address1), ""),
        address2     |-> jsOr(jsOr(primary.address2, fallback.address2), ""),
        city         |-> jsOr(jsOr(primary.city, fallback.city), ""),
        province     |-> jsOr(jsOr(primary.province, fallback.province), ""),
        provinceCode |-> jsOr(jsOr(primary.provinceCode, fallback.provinceCode), ""),
        country      |-> jsOr(jsOr(primary.country, fallback.country), ""),
        countryCode  |-> jsOr(jsOr(primary.countryCode, fallback.countryCode), ""),
        zip          |-> jsOr(jsOr(primary.zip, fallback.zip), ""),
        phone        |-> jsOr(jsOr(primary.phone, fallback.phone), ""),
        company      |-> jsOr(jsOr(primary.company, fallback.company), "")]

\* lines 41-49: the data built from the live cart and the payload
liveCartData_payloadLines(p, transformedCart) ==
    [p EXCEPT
        !.customer = IF truthy(transformedCart.customer.email)
                        THEN transformedCart.customer ELSE p.customer,
        !.pricing = transformedCart.pricing,
        !.shippingAddress = mergeAddress(transformedCart.shippingAddress, p.shippingAddress),
        !.billingAddress = IF p.billingAddress.defined
                              THEN p.billingAddress ELSE transformedCart.shippingAddress,
        !.note = jsOr(transformedCart.note, p.note)]
liveCartData(p, transformedCart) ==
    [p EXCEPT
        !.cartLines = transformedCart.cartLines,
        !.customer = IF truthy(transformedCart.customer.email)
                        THEN transformedCart.customer ELSE p.customer,
        !.pricing = transformedCart.pricing,
        !.shippingAddress = mergeAddress(transformedCart.shippingAddress, p.shippingAddress),
        !.billingAddress = IF p.billingAddress.defined
                              THEN p.billingAddress ELSE transformedCart.shippingAddress,
        !.note = jsOr(transformedCart.note, p.note)]

(***************************************************************************)
(* DraftOrderService: processCheckoutData, createDraftOrder,               *)
(* fetchCompanyContactId, and the POST /draft-orders handler               *)
(***************************************************************************)
NoEntity ==
    [attached |-> FALSE, companyId |-> Undef, companyLocationId |-> Undef,
     companyContactId |-> Undef]
NoInput ==
    [lineItems |-> <<>>, email |-> Undef, purchasingEntity |-> NoEntity,
     shippingAddress |-> NoAddress, billingAddress |-> NoAddress, note |-> Undef,
     tags |-> <<>>]
NoDraftOrder == [id |-> Undef, name |-> Undef]
NoReply == [code |-> 0, success |-> FALSE, id |-> Undef, name |-> Undef]
NoMerge == [primary |-> NoAddress, fallback |-> NoAddress, result |-> NoAddress]
NoRemote == [contact |-> "none", create |-> "none"]
NoVariables == [issued |-> FALSE, id |-> Undef, email |-> NoEmail]

OrchInit ==
    /\ orchCall = "none"
    /\ orchPc = "idle"
    /\ payload = NoPayload
    /\ cart = NoCart("none")
    /\ cartData = NoPayload
    /\ companyContactId = Undef
    /\ input = NoInput
    /\ orchIssued = <<>>
    /\ orchError = "none"
    /\ orchReturn = NoDraftOrder
    /\ httpReply = NoReply
    /\ merged = NoMerge
    /\ remote = NoRemote
    /\ body = NoPayload
    /\ quote = NoQuote
    /\ variables = NoVariables

\* part_003 200-201: error.message.includes('No line items') ||
\* error.message.includes('Draft order creation failed')
includesValidation(msg) ==
    msg \in {"No line items provided",
             "Failed to create draft order: Draft order creation failed: user errors",
             "Failed to create draft order: Draft order creation failed: No draft order returned"}

\* send-quote/index.js 123-125: error.message.includes('not found') ||
\* includes('not configured') || includes('user errors')
includesBadRequest(msg) ==
    msg \in {"Admin API client not configured",
             "Failed to send invoice: Failed to send invoice: Draft order not found"}

\* the catch of POST /send-quote, send-quote/index.js 119-138
sendFailed(msg) ==
    [code |-> IF includesBadRequest(msg) THEN 400 ELSE 500, success |-> FALSE,
     id |-> Undef, name |-> Undef]

\* an error leaves the service; under POST /draft-orders the handler's catch
\* (part_003 196-217) answers 400 or 500, under POST /send-quote the catch of
\* that handler
orchThrow(call, msg) ==
    /\ orchPc' = "failed"
    /\ orchError' = msg
    /\ httpReply' = IF call = "draftOrders"
                       THEN [code |-> IF includesValidation(msg) THEN 400 ELSE 500,
                             success |-> FALSE, id |-> Undef, name |-> Undef]
                    ELSE IF call = "sendQuote" THEN sendFailed(msg)
                    ELSE httpReply
    /\ UNCHANGED orchReturn

\* line 136: data.purchasingEntity?.company?.id && data.purchasingEntity?.location?.id
hasPurchasingEntity(d) ==
    truthy(d.purchasingEntity.companyId) /\ truthy(d.purchasingEntity.locationId)

\* createDraftOrder(data), lines 94-145, up to its first remote call: the
\* client test, the line-item test, and the choice of the contact lookup
noLineItems_missingOnly(d) == ~d.cartLines.present
noLineItems(d) == ~d.cartLines.present \/ Len(d.cartLines.items) = 0
createDraftOrderBegin(call, d) ==
    /\ cartData' = d
    /\ IF ~adminClient
          THEN /\ orchThrow(call, "Admin API client not configured")
               /\ UNCHANGED companyContactId
          ELSE IF noLineItems(d)
          THEN /\ orchThrow(call, "No line items provided")
               /\ UNCHANGED companyContactId
          ELSE /\ companyContactId' = IF hasPurchasingEntity(d) THEN d.customer.id ELSE Undef
               /\ orchPc' = IF hasPurchasingEntity(d) /\ truthy(d.customer.id)
                               THEN "fetchCompanyContactId" ELSE "draftOrderCreate"
               /\ UNCHANGED <<orchError, orchReturn, httpReply>>

\* createDraftOrder(data) called on the service
createDraftOrder(d) ==
    /\ orchPc = "idle"
    /\ orchCall' = "createDraftOrder"
    /\ createDraftOrderBegin("createDraftOrder", d)
    /\ UNCHANGED <<payload, cart, input, orchIssued, merged, remote, body, quote, variables>>
    /\ UNCHANGED outsideOrch

\* processCheckoutData(payload), lines 19-34: with a cart token the cart is
\* fetched first, without one createDraftOrder(payload) is called
processCheckoutDataEnter(call, p) ==
    /\ payload' = p
    /\ IF truthy(p.cartToken)
          THEN /\ orchPc' = "fetchCartByToken"
               /\ UNCHANGED <<cartData, companyContactId, orchError, orchReturn, httpReply>>
          ELSE createDraftOrderBegin(call, p)
    /\ UNCHANGED <<cart, input, orchIssued, merged, remote>>

\* a body the route's schema rejects: the request is answered 400 by the
\* validation that runs before the handler (draftOrders.test.js 23-56,
\* sendQuote.test.js 49-59)
schemaRejected ==
    /\ httpReply' = [code |-> 400, success |-> FALSE, id |-> Undef, name |-> Undef]
    /\ orchError' = "FST_ERR_VALIDATION"
    /\ orchPc' = "failed"

\* the services test of a handler (part_003 166-173, send-quote/index.js 94-100)
servicesMissing ==
    /\ httpReply' = [code |-> 500, success |-> FALSE, id |-> Undef, name |-> Undef]
    /\ orchError' = "Shopify services not configured"
    /\ orchPc' = "failed"

\* POST /draft-orders, part_003 113-187: the body schema, then the handler
draftOrders(p) ==
    /\ orchPc = "idle"
    /\ orchCall' = "draftOrders"
    /\ body' = p
    /\ IF ~checkoutPayloadSchema(p)
          THEN /\ schemaRejected
               /\ UNCHANGED <<payload, cart, cartData, companyContactId, input, orchIssued,
                              orchReturn, merged, remote>>
          ELSE IF ~servicesOk
          THEN /\ servicesMissing
               /\ UNCHANGED <<payload, cart, cartData, companyContactId, input, orchIssued,
                              orchReturn, merged, remote>>
          ELSE processCheckoutDataEnter("draftOrders", p)
    /\ UNCHANGED <<quote, variables>>
    /\ UNCHANGED outsideOrch

\* fetchCartByToken(cartToken) has settled (cart.service.js 18-147) and
\* processCheckoutData goes on, lines 36-63: a cart is transformed and merged
\* with the payload; no cart, or an error, leaves the payload as the data
FetchResponses ==
    {NoCart("notConfigured"), NoCart("rejected"), NoCart("noCart")} \cup LiveCarts
fallbackData_empty(p) == NoPayload
fallbackData(p) == p
fetchCartByToken(resp) ==
    /\ orchPc = "fetchCartByToken"
    /\ cart' = resp
    /\ orchIssued' = IF resp.kind = "notConfigured" THEN orchIssued
                     ELSE Append(orchIssued, "cart")
    /\ IF resp.kind = "cart"
          THEN LET transformedCart == transformCartToPayload(resp)
               IN /\ merged' = [primary |-> transformedCart.shippingAddress,
                                fallback |-> payload.shippingAddress,
                                result |-> mergeAddress(transformedCart.shippingAddress,
                                                        payload.shippingAddress)]
                  /\ createDraftOrderBegin(orchCall, liveCartData(payload, transformedCart))
          ELSE /\ createDraftOrderBegin(orchCall, fallbackData(payload))
               /\ UNCHANGED merged
    /\ UNCHANGED <<orchCall, payload, input, remote, body, quote, variables>>
    /\ UNCHANGED outsideOrch

\* fetchCompanyContactId(customerId, companyId), lines 592-622: the id of the
\* profile of that company, null when there is none or the query fails
ContactResponses == {"match", "otherCompany", "noProfiles", "rejected"}
fetchedContactId_throws(resp) == IF resp = "match" THEN "gid://CompanyContact/1" ELSE "threw"
fetchedContactId(resp) == IF resp = "match" THEN "gid://CompanyContact/1" ELSE Null

\* lines 141-145: the lookup has settled; a fetched id replaces the customer id
\* (the call is outside every try: an error thrown by it would leave
\* createDraftOrder)
fetchCompanyContactId(resp) ==
    /\ orchPc = "fetchCompanyContactId"
    /\ orchIssued' = Append(orchIssued, "customerCompanyContacts")
    /\ remote' = [remote EXCEPT !.contact = resp]
    /\ IF fetchedContactId(resp) = "threw"
          THEN /\ orchThrow(orchCall, "Failed to fetch company contact ID")
               /\ UNCHANGED companyContactId
          ELSE /\ companyContactId' = IF truthy(fetchedContactId(resp))
                                         THEN fetchedContactId(resp) ELSE companyContactId
               /\ orchPc' = "draftOrderCreate"
               /\ UNCHANGED <<orchError, orchReturn, httpReply>>
    /\ UNCHANGED <<orchCall, payload, cart, cartData, input, merged, body, quote, variables>>
    /\ UNCHANGED outsideOrch

\* lines 305-307
hasAddressData(a) ==
    truthy(a.address1) \/ truthy(a.city) \/ truthy(a.country) \/ truthy(a.countryCode)

\* lines 315-332: only the non-empty fields are copied
buildShopifyAddress(a) ==
    [defined      |-> TRUE,
     firstName    |-> IF truthy(a.firstName) THEN a.firstName ELSE Undef,
     lastName     |-> IF truthy(a.lastName) THEN a.lastName ELSE Undef,
     address1     |-> IF truthy(a.address1) THEN a.address1 ELSE Undef,
     address2     |-> IF truthy(a.address2) THEN a.address2 ELSE Undef,
     city         |-> IF truthy(a.city) THEN a.city ELSE Undef,
     province     |-> IF truthy(a.province) THEN a.province ELSE Undef,
     provinceCode |-> IF truthy(a.provinceCode) THEN a.provinceCode ELSE Undef,
     country      |-> IF truthy(a.country) THEN a.country ELSE Undef,
     countryCode  |-> IF truthy(a.countryCode) THEN a.countryCode ELSE Undef,
     zip          |-> IF truthy(a.zip) THEN a.zip ELSE Undef,
     phone        |-> IF truthy(a.phone) THEN a.phone ELSE Undef,
     company      |-> IF truthy(a.company) THEN a.company ELSE Undef]

\* lines 147-153: the purchasing-entity block of the input
purchasingCompany(d, contactId) ==
    IF hasPurchasingEntity(d)
       THEN [attached |-> TRUE, companyId |-> d.purchasingEntity.companyId,
             companyLocationId |-> d.purchasingEntity.locationId,
             companyContactId |-> contactId]
       ELSE NoEntity

\* lines 171-175: the tags that name the source
sourceTags(d) ==
    IF truthy(d.cartToken) THEN <<"quote-request", "cart-api">> ELSE <<"quote-request">>

\* lines 107-175: the DraftOrderInput built from the data
draftOrderInput(d, contactId) ==
    [lineItems |-> [i \in DOMAIN d.cartLines.items |->
                       [variantId |-> d.cartLines.items[i].variantId,
                        quantity |-> d.cartLines.items[i].quantity]],
     email |-> IF truthy(d.customer.email) THEN d.customer.email ELSE Undef,
     purchasingEntity |-> purchasingCompany(d, contactId),
     shippingAddress |-> IF d.shippingAddress.defined /\ hasAddressData(d.shippingAddress)
                            THEN buildShopifyAddress(d.shippingAddress) ELSE NoAddress,
     billingAddress |-> IF d.billingAddress.defined /\ hasAddressData(d.billingAddress)
                           THEN buildShopifyAddress(d.billingAddress) ELSE NoAddress,
     note |-> IF truthy(d.note) THEN d.note ELSE Undef,
     tags |-> sourceTags(d)]

\* lines 270-298: the message createDraftOrder fails with for a response of the
\* draftOrderCreate mutation, "none" when it returns the draft order
DraftOrderResponses == {"ok", "userErrors", "noDraftOrder", "rejected"}
createError(resp) ==
    IF resp = "userErrors"
       THEN "Failed to create draft order: Draft order creation failed: user errors"
    ELSE IF resp = "noDraftOrder"
       THEN "Failed to create draft order: Draft order creation failed: No draft order returned"
    ELSE IF resp = "rejected" THEN "Failed to create draft order: request failed"
    ELSE "none"

\* the handler's answer to a created draft order, part_003 190-195
created_status200(d) == [code |-> 200, success |-> TRUE, id |-> d.id, name |-> d.name]
created(d) == [code |-> 201, success |-> TRUE, id |-> d.id, name |-> d.name]

\* lines 270-298, the draftOrderCreate mutation and its response; under
\* POST /draft-orders the handler then answers
draftOrderCreate(resp) ==
    /\ orchPc = "draftOrderCreate"
    /\ input' = draftOrderInput(cartData, companyContactId)
    /\ orchIssued' = Append(orchIssued, "draftOrderCreate")
    /\ remote' = [remote EXCEPT !.create = resp]
    /\ IF createError(resp) = "none"
          THEN LET d == [id |-> "gid://shopify/DraftOrder/1", name |-> "#D1"]
               IN /\ orchReturn' = d
                  /\ orchPc' = "done"
                  /\ httpReply' = IF orchCall = "draftOrders" THEN created(d) ELSE httpReply
                  /\ UNCHANGED orchError
          ELSE orchThrow(orchCall, createError(resp))
    /\ UNCHANGED <<orchCall, payload, cart, cartData, companyContactId, merged,
                   body, quote, variables>>
    /\ UNCHANGED outsideOrch

\* sendInvoice(draftOrderId, emailOptions), lines 484-487: the client test
sendInvoiceEnter(call) ==
    IF ~adminClient
       THEN orchThrow(call, "Admin API client not configured")
       ELSE /\ orchPc' = "draftOrderInvoiceSend"
            /\ UNCHANGED <<orchError, orchReturn, httpReply>>

\* sendInvoice(draftOrderId, emailOptions) called on the service
sendInvoiceCall(id, o) ==
    /\ orchPc = "idle"
    /\ orchCall' = "sendInvoice"
    /\ quote' = [draftOrderId |-> id, email |-> o]
    /\ sendInvoiceEnter("sendInvoice")
    /\ UNCHANGED <<payload, cart, cartData, companyContactId, input, orchIssued, merged,
                   remote, body, variables>>
    /\ UNCHANGED outsideOrch

\* POST /send-quote, send-quote/index.js 52-111: the body schema, then the
\* handler up to its call of sendInvoice(draftOrderId, email)
sendQuote(b) ==
    /\ orchPc = "idle"
    /\ orchCall' = "sendQuote"
    /\ quote' = b
    /\ IF ~sendQuotePayloadSchema(b)
          THEN /\ schemaRejected
               /\ UNCHANGED orchReturn
          ELSE IF ~servicesOk
          THEN /\ servicesMissing
               /\ UNCHANGED orchReturn
          ELSE sendInvoiceEnter("sendQuote")
    /\ UNCHANGED <<payload, cart, cartData, companyContactId, input, orchIssued, merged,
                   remote, body, variables>>
    /\ UNCHANGED outsideOrch

\* lines 508-525: the email input holds the options that are truthy, bcc when
\* it is a non-empty list
emailInput_bccAlways(o) ==
    [defined       |-> TRUE,
     to            |-> IF truthy(o.to) THEN o.to ELSE Undef,
     from          |-> IF truthy(o.from) THEN o.from ELSE Undef,
     bcc           |-> o.bcc,
     subject       |-> IF truthy(o.subject) THEN o.subject ELSE Undef,
     customMessage |-> IF truthy(o.customMessage) THEN o.customMessage ELSE Undef]
emailInput(o) ==
    [defined       |-> TRUE,
     to            |-> IF truthy(o.to) THEN o.to ELSE Undef,
     from          |-> IF truthy(o.from) THEN o.from ELSE Undef,
     bcc           |-> IF o.bcc.defined /\ Len(o.bcc.list) > 0 THEN o.bcc ELSE NoBcc,
     subject       |-> IF truthy(o.subject) THEN o.subject ELSE Undef,
     customMessage |-> IF truthy(o.customMessage) THEN o.customMessage ELSE Undef]

\* Object.keys(email)
emailKeys(e) ==
    {k \in {"to", "from", "subject", "customMessage"} : e[k] # Undef}
    \cup (IF e.bcc.defined THEN {"bcc"} ELSE {})

\* lines 506-520: variables = { id }, with email when an option was copied
invoiceSendVariables(id, o) ==
    [issued |-> TRUE, id |-> id,
     email |-> IF o.defined /\ emailKeys(emailInput(o)) # {} THEN emailInput(o) ELSE NoEmail]

\* lines 527-554: the message sendInvoice fails with for a response of the
\* draftOrderInvoiceSend mutation, "none" when it returns the draft order
InvoiceSendResponses == {"ok", "userErrors", "notFound", "noDraftOrder", "rejected"}
sendError(resp) ==
    IF resp = "userErrors"
       THEN "Failed to send invoice: Failed to send invoice: Email address is invalid"
    ELSE IF resp = "notFound"
       THEN "Failed to send invoice: Failed to send invoice: Draft order not found"
    ELSE IF resp = "noDraftOrder"
       THEN "Failed to send invoice: Failed to send invoice: No draft order returned"
    ELSE IF resp = "rejected" THEN "Failed to send invoice: request failed"
    ELSE "none"

\* the answer of POST /send-quote to the draft order sendInvoice returned,
\* send-quote/index.js 113-117
sent(d) == [code |-> 200, success |-> TRUE, id |-> d.id, name |-> d.name]

\* lines 506-554, the draftOrderInvoiceSend mutation and its response; under
\* POST /send-quote the handler then answers
draftOrderInvoiceSend(resp) ==
    /\ orchPc = "draftOrderInvoiceSend"
    /\ variables' = invoiceSendVariables(quote.draftOrderId, quote.email)
    /\ orchIssued' = Append(orchIssued, "draftOrderInvoiceSend")
    /\ IF sendError(resp) = "none"
          THEN LET d == [id |-> quote.draftOrderId, name |-> "#D1"]
               IN /\ orchReturn' = d
                  /\ orchPc' = "done"
                  /\ httpReply' = IF orchCall = "sendQuote" THEN sent(d) ELSE httpReply
                  /\ UNCHANGED orchError
          ELSE orchThrow(orchCall, sendError(resp))
    /\ UNCHANGED <<orchCall, payload, cart, cartData, companyContactId, input, merged,
                   remote, body, quote>>
    /\ UNCHANGED outsideOrch

\* mergeAddress(primary, fallback) called on the service
mergeAddressCall(primary, fallback) ==
    /\ orchPc = "idle"
    /\ orchCall' = "mergeAddress"
    /\ merged' = [primary |-> primary, fallback |-> fallback,
                  result |-> mergeAddress(primary, fallback)]
    /\ orchPc' = "done"
    /\ UNCHANGED <<payload, cart, cartData, companyContactId, input, orchIssued, orchError,
                   orchReturn, httpReply, remote, body, quote, variables>>
    /\ UNCHANGED outsideOrch

\* the primary addresses mergeAddress is called with
PrimaryAddresses ==
    {EmptyObject,
     address({"address1"}, "primary", Undef),
     address({"address1", "zip"}, "primary", ""),
     address(AddressFields \ {"city", "company"}, "primary", ""),
     address(AddressFields, "primary", Undef)}

OrchNext ==
    \/ \E d \in Payloads(0) : createDraftOrder(d)
    \/ \E p \in Bodies : draftOrders(p)
    \/ \E b \in QuoteBodies : sendQuote(b)
    \/ \E o \in EmailOptions : sendInvoiceCall(DraftOrderId, o)
    \/ \E resp \in InvoiceSendResponses : draftOrderInvoiceSend(resp)
    \/ \E resp \in FetchResponses : fetchCartByToken(resp)
    \/ \E resp \in ContactResponses : fetchCompanyContactId(resp)
    \/ \E resp \in DraftOrderResponses : draftOrderCreate(resp)
    \/ \E a \in PrimaryAddresses, b \in PayloadAddresses : mergeAddressCall(a, b)

(***************************************************************************)
(* InvoicePdfService.generateAndAttachPdf and POST /print-quote            *)
(***************************************************************************)
\* the renderHtmlToPdf call made by generateInvoicePdf
RenderTask == 1

NoName == "undefined"
\* draftOrder arguments: null, or a draft order with or without a name
NullOrder == [present |-> FALSE, name |-> NoName]
DraftOrders == {NullOrder} \cup {[present |-> TRUE, name |-> n] : n \in {NoName, "#D1"}}
NoResult == [status |-> "none", url |-> NoUrl]
\* a response body without url key
NoKey == "absent"

CoordInit ==
    /\ servicesOk \in BOOLEAN
    /\ adminClient => servicesOk
    /\ bccEmail \in BOOLEAN
    /\ reqKind = "none"
    /\ hPc = "idle"
    /\ draftOrder = NullOrder
    /\ replyCode = 0
    /\ replyBody = "none"
    /\ replyUrl = NoKey
    /\ replies = 0
    /\ gaResult = NoResult
    /\ gaThrew = FALSE
    /\ stepFailed = "none"
    /\ errorLogs = {}
    /\ unhandled = FALSE
    /\ metafields = NoUrl
    /\ calls = <<>>

replyUnchanged == UNCHANGED <<replyCode, replyBody, replyUrl, replies>>

\* reply.code(code) with the returned or sent body { status, url }
reply(code, status, url) ==
    /\ replyCode' = code
    /\ replyBody' = status
    /\ replyUrl' = url
    /\ replies' = replies + 1

\* POST /print-quote, lines 146-157: the services test
printQuote ==
    /\ hPc = "idle"
    /\ reqKind' = "printQuote"
    /\ IF ~servicesOk
          THEN /\ reply(500, "error", NoUrl)
               /\ hPc' = "done"
          ELSE /\ replyUnchanged
               /\ hPc' = "processCheckoutData"
    /\ UNCHANGED <<orchVars, invVars>>
    /\ UNCHANGED <<servicesOk, bccEmail, draftOrder, gaResult, gaThrew, stepFailed,
                   errorLogs, unhandled, metafields, calls, rasterVars, upVars>>

\* lines 202-203: the errors the handler answers with 400
validationError(msg) ==
    msg \in {"No line items provided",
             "Failed to create draft order: Draft order creation failed"}

\* line 168, processCheckoutData(payload) and the createDraftOrder it ends in
\* (draftOrder.service.js 94-102, 270-298), then the handler's catch of lines
\* 198-219 when it throws; emptyLines: the cart lines handed over are empty
CreateResponses == {"ok", "userErrors", "noDraftOrder", "rejected"}
processCheckoutData(emptyLines, resp, name) ==
    /\ hPc = "processCheckoutData"
    /\ LET msg == IF ~adminClient THEN "Admin API client not configured"
                  ELSE IF emptyLines THEN "No line items provided"
                  ELSE IF resp \in {"userErrors", "noDraftOrder"}
                          THEN "Failed to create draft order: Draft order creation failed"
                  ELSE IF resp = "rejected" THEN "Failed to create draft order: request failed"
                  ELSE "none"
       IN /\ calls' = IF adminClient /\ ~emptyLines
                         THEN Append(calls, "draftOrderCreate") ELSE calls
          /\ IF msg = "none"
                THEN /\ draftOrder' = [present |-> TRUE, name |-> name]
                     /\ hPc' = "sendReply"
                     /\ replyUnchanged
                     /\ UNCHANGED errorLogs
                ELSE /\ reply(IF validationError(msg) THEN 400 ELSE 500, "error", NoUrl)
                     /\ errorLogs' = errorLogs \cup {"Failed to create print quote"}
                     /\ hPc' = "done"
                     /\ UNCHANGED draftOrder
    /\ UNCHANGED <<orchVars, invVars>>
    /\ UNCHANGED <<servicesOk, bccEmail, reqKind, gaResult, gaThrew, stepFailed,
                   unhandled, metafields, rasterVars, upVars>>

\* lines 171-173: reply.code(201).send({ status: 'success' })
sendReply ==
    /\ hPc = "sendReply"
    /\ reply(201, "success", NoKey)
    /\ hPc' = "background"
    /\ UNCHANGED <<orchVars, invVars>>
    /\ UNCHANGED <<servicesOk, bccEmail, reqKind, draftOrder, gaResult, gaThrew, stepFailed,
                   errorLogs, unhandled, metafields, calls, rasterVars, upVars>>

\* lines 176-183: the detached task starts and calls generateAndAttachPdf
backgroundStart_sendFirst ==
    /\ hPc = "background"
    /\ hPc' = "sendInvoice"
    /\ replyUnchanged
    /\ UNCHANGED <<orchVars, invVars>>
    /\ UNCHANGED <<servicesOk, bccEmail, reqKind, draftOrder, gaResult, gaThrew, stepFailed,
                   errorLogs, unhandled, metafields, calls, rasterVars, upVars>>
backgroundStart ==
    /\ hPc = "background"
    /\ hPc' = IF servicesOk THEN "generate" ELSE "sendInvoice"
    /\ replyUnchanged
    /\ UNCHANGED <<orchVars, invVars>>
    /\ UNCHANGED <<servicesOk, bccEmail, reqKind, draftOrder, gaResult, gaThrew, stepFailed,
                   errorLogs, unhandled, metafields, calls, rasterVars, upVars>>

\* POST /print-quote/from-draft, lines 266-285: the services test
fromDraft ==
    /\ hPc = "idle"
    /\ reqKind' = "fromDraft"
    /\ IF ~servicesOk
          THEN /\ reply(500, "error", NoUrl)
               /\ hPc' = "done"
          ELSE /\ replyUnchanged
               /\ hPc' = "fetchDraftOrderById"
    /\ UNCHANGED <<orchVars, invVars>>
    /\ UNCHANGED <<servicesOk, bccEmail, draftOrder, gaResult, gaThrew, stepFailed,
                   errorLogs, unhandled, metafields, calls, rasterVars, upVars>>

\* lines 301-302: error.message.includes('not found') ||
\* error.message.includes('Draft order')
notFoundError(msg) ==
    msg = "Failed to fetch draft order: Draft order not found: gid://shopify/DraftOrder/1"

\* line 288, fetchDraftOrderById(draftOrderId) (draftOrder.service.js 338-470),
\* then line 291, the call of generateAndAttachPdf(draftOrder, null); when the
\* fetch throws, the handler's catch of lines 297-317
FetchOrderResponses == {"ok", "noDraftOrder", "rejected"}
fetchDraftOrderById(resp, name) ==
    /\ hPc = "fetchDraftOrderById"
    /\ LET msg == IF ~adminClient THEN "Admin API client not configured"
                  ELSE IF resp = "noDraftOrder"
                          THEN "Failed to fetch draft order: Draft order not found: gid://shopify/DraftOrder/1"
                  ELSE IF resp = "rejected" THEN "Failed to fetch draft order: request failed"
                  ELSE "none"
       IN IF msg = "none"
             THEN /\ draftOrder' = [present |-> TRUE, name |-> name]
                  /\ hPc' = "generate"
                  /\ replyUnchanged
                  /\ UNCHANGED errorLogs
             ELSE /\ reply(IF notFoundError(msg) THEN 400 ELSE 500, "error", NoUrl)
                  /\ errorLogs' = errorLogs \cup {"Failed to generate PDF from draft order"}
                  /\ hPc' = "done"
                  /\ UNCHANGED draftOrder
    /\ UNCHANGED <<orchVars, invVars>>
    /\ UNCHANGED <<servicesOk, bccEmail, reqKind, gaResult, gaThrew, stepFailed,
                   unhandled, metafields, calls, rasterVars, upVars>>

\* generateAndAttachPdf(draftOrder, payload) called on the service
generateAndAttachPdf(d) ==
    /\ hPc = "idle"
    /\ servicesOk
    /\ reqKind' = "direct"
    /\ draftOrder' = d
    /\ hPc' = "generate"
    /\ replyUnchanged
    /\ UNCHANGED <<orchVars, invVars>>
    /\ UNCHANGED <<servicesOk, bccEmail, gaResult, gaThrew, stepFailed,
                   errorLogs, unhandled, metafields, calls, rasterVars, upVars>>

\* lines 701-712, the catch of generateAndAttachPdf: it logs
\* { error, draftOrderId: draftOrder.id } and returns the failure status;
\* reading draftOrder.id of a null draftOrder throws out of the catch
gaCatch(step) ==
    /\ stepFailed' = step
    /\ hPc' = "gaSettled"
    /\ IF draftOrder.present
          THEN /\ errorLogs' = errorLogs \cup {"PDF generation/upload failed"}
               /\ gaResult' = [status |-> "pdf_failed", url |-> NoUrl]
               /\ UNCHANGED gaThrew
          ELSE /\ gaThrew' = TRUE
               /\ UNCHANGED <<errorLogs, gaResult>>

\* lines 669-670 and generateInvoicePdf 70-82: the template data and the HTML
\* (prepareInvoiceTemplateData reads draftOrder only through ?.), then the call
\* of renderHtmlToPdf; a template error goes to generateInvoicePdf's catch,
\* which rethrows into the catch of generateAndAttachPdf
generateInvoicePdf(templateOk) ==
    /\ hPc = "generate"
    /\ IF templateOk
          THEN /\ getBrowser(RenderTask)
               /\ hPc' = "rendering"
               /\ UNCHANGED <<gaResult, gaThrew, stepFailed, errorLogs>>
          ELSE /\ gaCatch("generate")
               /\ UNCHANGED rasterVars
    /\ replyUnchanged
    /\ UNCHANGED <<orchVars, invVars>>
    /\ UNCHANGED <<servicesOk, bccEmail, reqKind, draftOrder, unhandled, metafields, calls,
                   upVars>>

\* lines 674-676: the invoice number of the filename and of the alt text
filenameNumber(name) == IF name # NoName THEN "INV-EE-1" ELSE "INV-EE-<now>"

\* renderHtmlToPdf has settled. Resolved: lines 671-682, Buffer.from, the
\* filename (draftOrder.name of a null draftOrder throws) and the call of
\* uploadPdf. Rejected: the catch of generateAndAttachPdf
renderSettled ==
    /\ hPc = "rendering"
    /\ pc[RenderTask] \in {"done", "failed"}
    /\ IF pc[RenderTask] = "failed"
          THEN /\ gaCatch("generate")
               /\ UNCHANGED upVars
          ELSE IF ~draftOrder.present
          THEN /\ gaCatch("filename")
               /\ UNCHANGED upVars
          ELSE /\ uploadPdfCall("VAT Invoice " \o filenameNumber(draftOrder.name))
               /\ hPc' = "uploading"
               /\ UNCHANGED <<gaResult, gaThrew, stepFailed, errorLogs>>
    /\ replyUnchanged
    /\ UNCHANGED <<orchVars, invVars>>
    /\ UNCHANGED <<servicesOk, bccEmail, reqKind, draftOrder, unhandled, metafields, calls,
                   rasterVars>>

\* uploadPdf has settled: on to attachFileToDraftOrder, or to the catch
uploadSettled ==
    /\ hPc = "uploading"
    /\ upPc \in {"done", "failed"}
    /\ IF upPc = "failed"
          THEN gaCatch("upload")
          ELSE /\ hPc' = "attach"
               /\ UNCHANGED <<gaResult, gaThrew, stepFailed, errorLogs>>
    /\ replyUnchanged
    /\ UNCHANGED <<orchVars, invVars>>
    /\ UNCHANGED <<servicesOk, bccEmail, reqKind, draftOrder, unhandled, metafields, calls,
                   rasterVars, upVars>>

\* lines 685-699 and attachFileToDraftOrder (part_002 279-349): the
\* draftOrderUpdate mutation with the two metafields; user errors and a rejected
\* request throw, anything else returns and generateAndAttachPdf completes
AttachResponses == {"ok", "userErrors", "noDraftOrder", "rejected"}
attachFileToDraftOrder(resp) ==
    /\ hPc = "attach"
    /\ calls' = Append(calls, "draftOrderUpdate")
    /\ IF resp \in {"userErrors", "rejected"}
          THEN /\ gaCatch("attach")
               /\ UNCHANGED metafields
          ELSE /\ metafields' = IF resp = "ok" THEN upReturn.url ELSE metafields
               /\ gaResult' = [status |-> "completed", url |-> upReturn.url]
               /\ hPc' = "gaSettled"
               /\ UNCHANGED <<gaThrew, stepFailed, errorLogs>>
    /\ replyUnchanged
    /\ UNCHANGED <<orchVars, invVars>>
    /\ UNCHANGED <<servicesOk, bccEmail, reqKind, draftOrder, unhandled, rasterVars, upVars>>

\* lines 192-194, the catch of the detached task: the error is logged
backgroundCatch_rethrow ==
    /\ unhandled' = TRUE
    /\ UNCHANGED errorLogs
backgroundCatch ==
    /\ errorLogs' = errorLogs \cup {"Background operations failed"}
    /\ UNCHANGED unhandled

\* generateAndAttachPdf has settled: its direct caller has the outcome; the
\* detached task of /print-quote goes on to sendInvoice, or to its catch; the
\* handler of /print-quote/from-draft answers 201 with the result (lines
\* 293-295), or from its catch
generateAndAttachPdfSettled ==
    /\ hPc = "gaSettled"
    /\ IF reqKind = "printQuote" /\ gaThrew
          THEN /\ backgroundCatch
               /\ hPc' = "done"
               /\ replyUnchanged
          ELSE IF reqKind = "fromDraft"
          THEN /\ IF gaThrew
                     THEN /\ reply(500, "error", NoUrl)
                          /\ errorLogs' =
                                errorLogs \cup {"Failed to generate PDF from draft order"}
                     ELSE /\ reply(201, gaResult.status, gaResult.url)
                          /\ UNCHANGED errorLogs
               /\ hPc' = "done"
               /\ UNCHANGED unhandled
          ELSE /\ hPc' = IF reqKind = "printQuote" THEN "sendInvoice" ELSE "done"
               /\ UNCHANGED <<errorLogs, unhandled>>
               /\ replyUnchanged
    /\ UNCHANGED <<orchVars, invVars>>
    /\ UNCHANGED <<servicesOk, bccEmail, reqKind, draftOrder, gaResult, gaThrew, stepFailed,
                   metafields, calls, rasterVars, upVars>>

\* the number of times a remote call was issued
count(seq, call) == Cardinality({i \in DOMAIN seq : seq[i] = call})

\* lines 186-191 and sendInvoice (draftOrder.service.js 484-555): the
\* draftOrderInvoiceSend mutation; every failure is thrown into the catch of
\* the detached task
SendResponses == {"ok", "userErrors", "noDraftOrder", "rejected"}
sendInvoice_retry(resp) ==
    /\ hPc = "sendInvoice"
    /\ calls' = IF adminClient THEN Append(calls, "draftOrderInvoiceSend") ELSE calls
    /\ IF adminClient /\ resp = "ok"
          THEN /\ hPc' = "done"
               /\ UNCHANGED <<stepFailed, errorLogs, unhandled>>
          ELSE /\ hPc' = IF adminClient /\ count(calls, "draftOrderInvoiceSend") < 2
                            THEN "sendInvoice" ELSE "done"
               /\ stepFailed' = "sendInvoice"
               /\ backgroundCatch
    /\ replyUnchanged
    /\ UNCHANGED <<orchVars, invVars>>
    /\ UNCHANGED <<servicesOk, bccEmail, reqKind, draftOrder, gaResult, gaThrew,
                   metafields, rasterVars, upVars>>
sendInvoice(resp) ==
    /\ hPc = "sendInvoice"
    /\ calls' = IF adminClient THEN Append(calls, "draftOrderInvoiceSend") ELSE calls
    /\ IF adminClient /\ resp = "ok"
          THEN UNCHANGED <<stepFailed, errorLogs, unhandled>>
          ELSE /\ stepFailed' = "sendInvoice"
               /\ backgroundCatch
    /\ hPc' = "done"
    /\ replyUnchanged
    /\ UNCHANGED <<orchVars, invVars>>
    /\ UNCHANGED <<servicesOk, bccEmail, reqKind, draftOrder, gaResult, gaThrew,
                   metafields, rasterVars, upVars>>

CoordNext ==
    \/ printQuote
    \/ \E e \in BOOLEAN, resp \in CreateResponses, n \in {NoName, "#D1"} :
          processCheckoutData(e, resp, n)
    \/ sendReply
    \/ backgroundStart
    \/ fromDraft
    \/ \E resp \in FetchOrderResponses, n \in {NoName, "#D1"} : fetchDraftOrderById(resp, n)
    \/ \E d \in DraftOrders : generateAndAttachPdf(d)
    \/ \E ok \in BOOLEAN : generateInvoicePdf(ok)
    \/ \E t \in Tasks : launchResolve(t)
    \/ \E t \in Tasks : launchReject(t)
    \/ \E t \in Tasks : newPage(t)
    \/ \E t \in Tasks : setContentOk(t)
    \/ \E t \in Tasks : setContentFail(t)
    \/ \E t \in Tasks : pdfOk(t)
    \/ \E t \in Tasks : pdfFail(t)
    \/ \E t \in Tasks : pageClose(t)
    \/ renderSettled
    \/ \E resp \in StagedResponses : createStagedUpload(resp)
    \/ \E ok \in BOOLEAN : uploadToStagedUrl(ok)
    \/ \E resp \in RecordResponses, u \in RecordUrls : createFileRecord(resp, u)
    \/ waitForFileUrlEnter
    \/ \E f \in PollResponses : pollFile(f)
    \/ pollRejected
    \/ sleepDone
    \/ uploadSettled
    \/ \E resp \in AttachResponses : attachFileToDraftOrder(resp)
    \/ generateAndAttachPdfSettled
    \/ \E resp \in SendResponses : sendInvoice(resp)

(***************************************************************************)
(* The invoice data of a draft order: formatDraftOrderResponse over the    *)
(* two selections, PdfService.prepareInvoiceTemplateData and the filename  *)
(* of InvoicePdfService.generateAndAttachPdf                               *)
(***************************************************************************)
\* longest draft order name
MaxNameLen == 3

\* the characters of a draft order name: a letter and two digits
Chars == {"D", "1", "2"}
Digits == {"0", "1", "2", "3", "4", "5", "6", "7", "8", "9"}

\* draftOrder.name: undefined, or a string (the empty one included)
NoOrderName == [defined |-> FALSE, chars |-> <<>>]
OrderNames ==
    {NoOrderName, [defined |-> TRUE, chars |-> <<"#", "D", "1", "2", "3">>]}
    \cup {[defined |-> TRUE, chars |-> c] :
              c \in UNION {[1..n -> Chars] : n \in 0..MaxNameLen}}

\* Date.now().toString(): 13 digits
Nows == {<<"1", "7", "6", "2", "3", "4", "8", "0", "0", "0", "1", "2", "3">>,
         <<"1", "7", "6", "2", "3", "4", "8", "9", "8", "7", "6", "5", "4">>}

\* fastify.config.invoice.prefix (config.js 36-39, 225-229), undefined when
\* the configuration has none
Prefixes == {Undef, "INV-EE-", "RE-"}

\* the discount of a remote draft order: totalDiscountsSet.shopMoney.amount,
\* appliedDiscount.title (null: no applied discount) and discountCodes
RemoteDiscounts ==
    {[amount |-> "0.0", applied |-> Null, codes |-> <<>>],
     [amount |-> "5.0", applied |-> Null, codes |-> <<>>],
     [amount |-> "5.0", applied |-> "Summer sale", codes |-> <<>>],
     [amount |-> "5.0", applied |-> Null, codes |-> <<"SAVE5">>]}
RemoteOrders ==
    {[name |-> n, totalDiscountsSet |-> x.amount, appliedDiscount |-> x.applied,
      discountCodes |-> x.codes] : n \in OrderNames, x \in RemoteDiscounts}
NoOrder ==
    [name |-> NoOrderName, totalDiscountsSet |-> Undef, appliedDiscount |-> Undef,
     discountCodes |-> <<>>]

\* draftOrder.service.js 178-268: the draftOrder selection of the
\* draftOrderCreate mutation has no appliedDiscount, discountCodes and
\* totalDiscountsSet
createSelection(r) ==
    [name |-> r.name, totalDiscountsSet |-> Undef, appliedDiscount |-> Undef,
     discountCodes |-> [defined |-> FALSE, list |-> <<>>]]

\* draftOrder.service.js 345-448: the selection of the draftOrder query has them
fetchSelection(r) ==
    [name |-> r.name, totalDiscountsSet |-> r.totalDiscountsSet,
     appliedDiscount |-> r.appliedDiscount,
     discountCodes |-> [defined |-> TRUE, list |-> r.discountCodes]]

\* draftOrder.service.js 562-585
formatDraftOrderResponse(d) ==
    [name |-> d.name, totalDiscountsSet |-> d.totalDiscountsSet,
     appliedDiscount |-> d.appliedDiscount,
     discountCodes |-> IF d.discountCodes.defined THEN d.discountCodes.list ELSE <<>>]

\* pdf.service.js 238-277: null without a positive total discount, else the
\* description taken from the applied discount or from the codes
NoDiscount == [present |-> FALSE, amount |-> Null, description |-> Null, codes |-> <<>>]
processDiscountInfo(d) ==
    IF ~(truthy(d.totalDiscountsSet) /\ d.totalDiscountsSet # "0.0")
       THEN NoDiscount
       ELSE [present |-> TRUE, amount |-> d.totalDiscountsSet,
             description |-> IF truthy(d.appliedDiscount) THEN d.appliedDiscount
                             ELSE IF Len(d.discountCodes) > 0 THEN "Discount Code"
                             ELSE "Discount",
             codes |-> d.discountCodes]

\* /\d/ and /[0-9]/
isDigit(c) == c \in Digits

\* the digits a string starts with
RECURSIVE leadingDigits(_)
leadingDigits(str) ==
    IF str = <<>> \/ ~isDigit(Head(str)) THEN <<>>
    ELSE <<Head(str)>> \o leadingDigits(Tail(str))

\* pdf.service.js 428: str.match(/\d+/), the leftmost run of digits, <<>> when
\* there is no match
RECURSIVE matchDigits(_)
matchDigits(str) ==
    IF str = <<>> THEN <<>>
    ELSE IF isDigit(Head(str)) THEN leadingDigits(str)
    ELSE matchDigits(Tail(str))

\* pdf.service.js 675: str.replace(/[^0-9]/g, '')
RECURSIVE stripNonDigits(_)
stripNonDigits(str) ==
    IF str = <<>> THEN <<>>
    ELSE (IF isDigit(Head(str)) THEN <<Head(str)>> ELSE <<>>) \o stripNonDigits(Tail(str))

\* str.slice(-n)
sliceLast(str, n) == SubSeq(str, IF Len(str) > n THEN Len(str) - n + 1 ELSE 1, Len(str))

\* pdf.service.js 425-437, generateInvoiceNumber(draftOrderName, prefix =
\* 'INV-EE-') at the time now: the prefix and the number that follows it
generateInvoiceNumber_allDigits(name, prefix, now) ==
    [prefix |-> IF prefix = Undef THEN "INV-EE-" ELSE prefix,
     number |-> IF name.defined /\ stripNonDigits(name.chars) # <<>>
                   THEN stripNonDigits(name.chars) ELSE sliceLast(now, 6)]
generateInvoiceNumber(name, prefix, now) ==
    [prefix |-> IF prefix = Undef THEN "INV-EE-" ELSE prefix,
     number |-> IF name.defined /\ matchDigits(name.chars) # <<>>
                   THEN matchDigits(name.chars) ELSE sliceLast(now, 6)]

\* pdf.service.js 673-676, the invoiceNumber of generateAndAttachPdf at the
\* time now: draftOrder.name ? `INV-EE-${name.replace(/[^0-9]/g, '')}`
\*                           : `INV-EE-${Date.now()}`
invoiceNumber(name, now) ==
    [prefix |-> "INV-EE-",
     number |-> IF name.defined /\ name.chars # <<>>
                   THEN stripNonDigits(name.chars) ELSE now]

NoNumber == [prefix |-> Undef, number |-> <<>>]
NoTemplateData ==
    [prefix |-> Undef, now |-> <<>>, invoiceNumber |-> NoNumber, discount |-> NoDiscount]

InvInit ==
    /\ invPc = "idle"
    /\ flow = "none"
    /\ remoteOrder = NoOrder
    /\ order = formatDraftOrderResponse(createSelection(NoOrder))
    /\ templateData = NoTemplateData
    /\ fileNumber = NoNumber

\* draftOrder.service.js 282-293: createDraftOrder returns the projection of
\* the draft order the draftOrderCreate mutation selected; POST /print-quote
\* hands it to generateAndAttachPdf (print-quote/index.js 168-183)
createdProjection(r) ==
    /\ invPc = "idle"
    /\ flow' = "printQuote"
    /\ remoteOrder' = r
    /\ order' = formatDraftOrderResponse(createSelection(r))
    /\ invPc' = "template"
    /\ UNCHANGED <<templateData, fileNumber>>
    /\ UNCHANGED outsideInv

\* draftOrder.service.js 455-466: fetchDraftOrderById returns the projection of
\* the draft order the draftOrder query selected; POST /print-quote/from-draft
\* hands it to generateAndAttachPdf (print-quote/index.js 288-291)
fetchedProjection(r) ==
    /\ invPc = "idle"
    /\ flow' = "fromDraft"
    /\ remoteOrder' = r
    /\ order' = formatDraftOrderResponse(fetchSelection(r))
    /\ invPc' = "template"
    /\ UNCHANGED <<templateData, fileNumber>>
    /\ UNCHANGED outsideInv

\* pdf.service.js 127-190, prepareInvoiceTemplateData with the configured
\* prefix at the time now: the invoice number and the discount of the document
prepareInvoiceTemplateData(prefix, now) ==
    /\ invPc = "template"
    /\ templateData' = [prefix |-> prefix, now |-> now,
                        invoiceNumber |-> generateInvoiceNumber(order.name, prefix, now),
                        discount |-> processDiscountInfo(order)]
    /\ invPc' = "filename"
    /\ UNCHANGED <<flow, remoteOrder, order, fileNumber>>
    /\ UNCHANGED outsideInv

\* pdf.service.js 673-682, after the PDF is rendered: the invoiceNumber of
\* `vat_invoice_${invoiceNumber}.pdf` and of `VAT Invoice ${invoiceNumber}`
invoiceFilename(now) ==
    /\ invPc = "filename"
    /\ fileNumber' = invoiceNumber(order.name, now)
    /\ invPc' = "done"
    /\ UNCHANGED <<flow, remoteOrder, order, templateData>>
    /\ UNCHANGED outsideInv

InvNext ==
    \/ \E r \in RemoteOrders : createdProjection(r)
    \/ \E r \in RemoteOrders : fetchedProjection(r)
    \/ \E p \in Prefixes, now \in Nows : prepareInvoiceTemplateData(p, now)
    \/ \E now \in Nows : invoiceFilename(now)

(***************************************************************************)
(* Specifications                                                          *)
(***************************************************************************)
Init == RasterInit /\ UploaderInit /\ CoordInit /\ OrchInit /\ InvInit

SpecRasterizer == Init /\ [][RasterNext]_vars

SpecUploader == Init /\ [][UploaderNext]_vars

SpecCoordinator == Init /\ [][CoordNext]_vars

SpecOrchestrator == Init /\ [][OrchNext]_vars

SpecInvoice == Init /\ [][InvNext]_vars

(***************************************************************************)
(* Uploader properties                                                     *)
(***************************************************************************)
waitSettled == upPc \in {"done", "failed"}

C5_FailedTerminal ==
    failedAt # 0 =>
        /\ upPc = "failed"
        /\ upError = "processing_failed"
        /\ polls = failedAt
        /\ attempts = failedAt - 1
        /\ sleeps = failedAt - 1

\* FAILED on the second poll with budget left
C5_Witness ==
    /\ failedAt = 2
    /\ maxRetries > 2
    /\ upError = "processing_failed"

\* the remote call the n-th issued call must be in uploadPdf's order
phaseCall(n) ==
    IF n = 1 THEN "stagedUploadsCreate"
    ELSE IF n = 2 THEN "stagedPost"
    ELSE IF n = 3 THEN "fileCreate"
    ELSE "fileStatus"

phaseOf(call) ==
    IF call = "stagedUploadsCreate" THEN "createStagedUpload"
    ELSE IF call = "stagedPost" THEN "uploadToStagedUrl"
    ELSE IF call = "fileCreate" THEN "createFileRecord"
    ELSE "waitForFileUrl"

\* C6: uploadPdf issues createStagedUpload, uploadToStagedUrl, createFileRecord,
\* waitForFileUrl in that order, each only after the one before has succeeded;
\* a failed phase is the last one issued and uploadPdf fails; on success the
\* result is the file record with its url replaced by the polled ready url
C6_StrictSequence ==
    upCall = "uploadPdf" =>
        /\ \A i \in DOMAIN issued : issued[i] = phaseCall(i)
        /\ \A i \in DOMAIN issued :
              (i > 1 /\ i <= 4) => phaseOf(phaseCall(i - 1)) \in phaseOk
        /\ upPc = "failed" =>
              /\ upReturn = NoFile
              /\ upError # "none"
              /\ issued # <<>> => phaseOf(issued[Len(issued)]) \notin phaseOk
        /\ upPc = "done" =>
              /\ phaseOk = {"createStagedUpload", "uploadToStagedUrl",
                            "createFileRecord", "waitForFileUrl"}
              /\ upError = "none"
              /\ upReturn.id = file.id
              /\ upReturn.alt = file.alt
              /\ upReturn.url = fileUrl
              /\ fileUrl \in Urls
              /\ readyUrlAt = polls

\* a full upload whose file record carried another url than the ready one
C6_Witness ==
    /\ upCall = "uploadPdf"
    /\ upPc = "done"
    /\ file.url = "record-url"
    /\ polls >= 2


\* C27: the metadata passed to uploadPdf is the metadata createFileRecord
\* receives: the alt text the caller chose ('VAT Invoice {invoiceNumber}') is
\* the alt text of the file record that is created
C27_AltForwarded ==
    (upCall = "uploadPdf" /\ file # NoFile /\ upMeta # NoAlt) => file.alt = upMeta

(***************************************************************************)
(* Coordinator and /print-quote properties                                 *)
(***************************************************************************)
gaSteps == {"generate", "filename", "upload", "attach"}

\* C2: no exception leaves generateAndAttachPdf, whatever the draftOrder
\* (null or without name included); when generation, upload or attachment
\* fails it resolves with {status: 'pdf_failed', url: null}
C2_NeverThrows ==
    /\ ~gaThrew
    /\ (hPc \in {"gaSettled", "sendInvoice", "done"} /\ stepFailed \in gaSteps) =>
          gaResult = [status |-> "pdf_failed", url |-> NoUrl]

\* the detached task of /print-quote has begun its first step or is past it
backgroundRunning ==
    \/ hPc \in {"generate", "rendering", "uploading", "attach", "gaSettled", "sendInvoice"}
    \/ pc[RenderTask] # "idle"
    \/ issued # <<>>
    \/ stepFailed # "none"

\* C10: in POST /print-quote the 201 response goes out after the draft order
\* exists and before the background work starts; a failing background step is
\* caught and logged, leaves the sent response as it is and never becomes an
\* unhandled rejection
C10_ReplyThenBackground ==
    /\ [](reqKind = "printQuote" =>
            /\ replies <= 1
            /\ replyCode = 201 =>
                  (draftOrder.present /\ calls # <<>> /\ calls[1] = "draftOrderCreate")
            /\ backgroundRunning => (replyCode = 201 /\ replyBody = "success")
            /\ ~unhandled
            /\ (hPc = "done" /\ stepFailed \in gaSteps) =>
                  "PDF generation/upload failed" \in errorLogs
            /\ (hPc = "done" /\ stepFailed = "sendInvoice") =>
                  "Background operations failed" \in errorLogs)
    /\ [][replyCode # 0 => (replyCode' = replyCode /\ replyBody' = replyBody)]_vars

\* the PDF step and the invoice send have both failed after the 201 went out
C10_Witness ==
    /\ reqKind = "printQuote"
    /\ hPc = "done"
    /\ replyCode = 201
    /\ stepFailed = "sendInvoice"
    /\ gaResult.status = "pdf_failed"
    /\ errorLogs = {"PDF generation/upload failed", "Background operations failed"}

\* the draftOrderInvoiceSend mutation has been issued
invoiceSent == \E i \in DOMAIN calls : calls[i] = "draftOrderInvoiceSend"

\* C11 as stated: in the /print-quote background workflow the
\* draftOrderInvoiceSend mutation is issued only after the PDF URL has been
\* attached to the draft order
C11_AsStated ==
    (reqKind = "printQuote" /\ invoiceSent) =>
        /\ metafields # NoUrl
        /\ gaResult.status = "completed"

\* C11 amended: in the /print-quote background workflow the steps run in the
\* order generate PDF, upload, attach URL, send invoice email, each PDF step
\* only after the one before has succeeded; the draftOrderInvoiceSend mutation
\* is issued only after generateAndAttachPdf has settled, and no PDF step runs
\* after it; a failed PDF step does not hold the invoice email back
C11_SendAfterPdfSettled ==
    /\ [](reqKind = "printQuote" =>
            /\ issued # <<>> => pc[RenderTask] = "done"
            /\ (\E i \in DOMAIN calls : calls[i] = "draftOrderUpdate") =>
                  (pc[RenderTask] = "done" /\ upPc = "done")
            /\ metafields # NoUrl => metafields = upReturn.url
            /\ invoiceSent =>
                  /\ gaResult # NoResult
                  /\ hPc = "done"
                  /\ pc[RenderTask] \in {"idle", "done", "failed"}
                  /\ upPc \in {"idle", "done", "failed"}
                  /\ calls[Len(calls)] = "draftOrderInvoiceSend"
                  /\ gaResult.status = "completed" =>
                        (Len(calls) = 3 /\ calls[2] = "draftOrderUpdate"))
    /\ [][(reqKind = "printQuote" /\ invoiceSent) =>
             UNCHANGED <<pc, issued, calls, metafields, gaResult>>]_vars

\* the invoice was sent although the upload had failed
C11_Witness ==
    /\ reqKind = "printQuote"
    /\ invoiceSent
    /\ stepFailed = "upload"
    /\ gaResult.status = "pdf_failed"
    /\ metafields = NoUrl

\* C18: generateAndAttachPdf returns {status: 'completed', url} only when PDF
\* generation, upload and attachment have all succeeded, i.e. only when the two
\* metafields were attached to the draft order, and the returned url is the ready
\* URL that was attached
C18_CompletedMeansAttached ==
    gaResult.status = "completed" =>
        /\ pc[RenderTask] = "done"
        /\ upPc = "done"
        /\ gaResult.url = upReturn.url
        /\ gaResult.url \in Urls
        /\ metafields = gaResult.url

\* C22: every 201 response of POST /print-quote has a JSON body that carries a
\* status and contains a url key
C22_CreatedBodyHasUrl ==
    (reqKind = "printQuote" /\ replyCode = 201) =>
        /\ replyBody # "none"
        /\ replyUrl # NoKey

\* C30: a 201 response of POST /print-quote/from-draft always carries status
\* 'completed' and a non-null PDF url: when generation, upload or attachment
\* fails the endpoint does not answer with the success status code
C30_CreatedMeansCompleted ==
    (reqKind = "fromDraft" /\ replyCode = 201) =>
        /\ replyBody = "completed"
        /\ replyUrl \in Urls
        /\ stepFailed = "none"

\* C19: for one POST /print-quote request, draftOrderCreate, stagedUploadsCreate,
\* the staged multipart upload, fileCreate, draftOrderUpdate and
\* draftOrderInvoiceSend are each issued at most once, whatever fails; only the
\* file-status query may repeat, and at most maxRetries times
C19_AtMostOnce ==
    reqKind = "printQuote" =>
        /\ \A call \in {"draftOrderCreate", "draftOrderUpdate", "draftOrderInvoiceSend"} :
              count(calls, call) <= 1
        /\ \A call \in {"stagedUploadsCreate", "stagedPost", "fileCreate"} :
              count(issued, call) <= 1
        /\ count(issued, "fileStatus") = polls
        /\ polls <= DefaultMaxRetries
        /\ polls > 0 => (maxRetries = DefaultMaxRetries /\ polls <= maxRetries)
        /\ Len(calls) <= 3
        /\ Len(issued) <= 3 + DefaultMaxRetries

\* a request whose every mutation was issued, the status query maxRetries
\* times, and whose invoice send failed
C19_Witness ==
    /\ reqKind = "printQuote"
    /\ hPc = "done"
    /\ polls = maxRetries
    /\ calls = <<"draftOrderCreate", "draftOrderUpdate", "draftOrderInvoiceSend">>
    /\ stepFailed = "sendInvoice"

(***************************************************************************)
(* Draft order service and POST /draft-orders properties                   *)
(***************************************************************************)
\* createDraftOrder has been called, directly or by processCheckoutData
createCalled ==
    \/ orchCall = "createDraftOrder"
    \/ /\ orchCall = "draftOrders"
       /\ orchError # "FST_ERR_VALIDATION"
       /\ servicesOk
       /\ orchPc # "fetchCartByToken"

\* the cart lookup ended without a cart: fetchCartByToken threw or returned null
lookupFailed == cart.kind \in {"notConfigured", "rejected", "noCart"}

createErrors ==
    {"none", "Admin API client not configured", "No line items provided"}
        \cup {createError(resp) : resp \in DraftOrderResponses}

\* C12: with a cart token in the payload, when fetchCartByToken throws or returns
\* no cart, processCheckoutData still calls createDraftOrder, with the payload
\* unchanged (same cartLines, customer, pricing, addresses, note), and fails at
\* most with an error of createDraftOrder
C12_FallbackVerbatim ==
    lookupFailed =>
        /\ truthy(payload.cartToken)
        /\ createCalled
        /\ cartData = payload
        /\ merged = NoMerge
        /\ orchError \in createErrors
        /\ input # NoInput =>
              /\ Len(input.lineItems) = Len(payload.cartLines.items)
              /\ \A i \in DOMAIN input.lineItems : input.lineItems[i].variantId = "payload"
              /\ input.note = payload.note
              /\ input.email = payload.customer.email

\* the cart query was rejected and the draft order was created from the payload
C12_Witness ==
    /\ cart.kind = "rejected"
    /\ orchPc = "done"
    /\ httpReply.code = 201
    /\ payload.note = "payload note"
    /\ input.note = "payload note"

\* the shipping address is the field-by-field merge of the live delivery
\* address and the payload's shipping address
shippingMerged ==
    \A f \in AddressFields :
        cartData.shippingAddress[f] =
            IF truthy(cart.deliveryAddress[f]) THEN cart.deliveryAddress[f]
            ELSE IF payload.shippingAddress.defined /\ truthy(payload.shippingAddress[f])
                 THEN payload.shippingAddress[f]
            ELSE ""

\* the cart lines are the lines of the live cart
linesFromCart ==
    /\ cartData.cartLines.present
    /\ Len(cartData.cartLines.items) = Len(cart.lines.items)
    /\ \A i \in DOMAIN cartData.cartLines.items :
          /\ cartData.cartLines.items[i].variantId = cart.lines.items[i].variantId
          /\ cartData.cartLines.items[i].quantity = cart.lines.items[i].quantity

\* the customer of the live cart
liveCustomer ==
    [defined |-> TRUE,
     id |-> IF cart.buyer.customerId = Null THEN Undef ELSE cart.buyer.customerId,
     email |-> IF truthy(cart.buyer.customerEmail)
                  THEN cart.buyer.customerEmail ELSE cart.buyer.buyerEmail]

\* C13 as stated: when the live cart fetch succeeds, the data handed to
\* createDraftOrder takes its cartLines, customer and pricing from the live cart,
\* whatever the payload holds, and its shipping address from the field-by-field
\* merge of live and payload addresses
C13_AsStated ==
    cart.kind = "cart" =>
        /\ linesFromCart
        /\ cartData.customer = liveCustomer
        /\ cartData.pricing = "live pricing"
        /\ shippingMerged

\* C13 amended: when the live cart fetch succeeds, the data handed to
\* createDraftOrder takes its cartLines and pricing from the live cart, whatever
\* the payload holds; its customer from the live cart when the live customer has
\* an email and from the payload otherwise; and its shipping address from the
\* field-by-field merge of live and payload addresses
C13_LiveSupersedes ==
    cart.kind = "cart" =>
        /\ createCalled
        /\ linesFromCart
        /\ cartData.customer = IF truthy(liveCustomer.email)
                                  THEN liveCustomer ELSE payload.customer
        /\ cartData.pricing = "live pricing"
        /\ shippingMerged

\* a live cart without buyer email: lines and pricing are the cart's, the
\* customer is the payload's
C13_Witness ==
    /\ cart.kind = "cart"
    /\ orchPc = "done"
    /\ cart.buyer.customerEmail = Null
    /\ cart.buyer.buyerEmail = Null
    /\ payload.customer.email = "payload@example.com"
    /\ cartData.customer = payload.customer
    /\ cart.deliveryAddress.address1 = "live"
    /\ cart.deliveryAddress.city = Null
    /\ payload.shippingAddress.city = "payload"
    /\ input.lineItems[1].variantId = "live"

\* C14: mergeAddress(primary, fallback) decides each of the 12 fields on its own:
\* the primary value when non-empty, else the fallback value when non-empty,
\* else the empty string; the result has all 12 fields, and a fallback that is
\* not passed behaves like an empty one
C14_FieldByField ==
    merged # NoMerge =>
        /\ merged.result.defined
        /\ DOMAIN merged.result = AddressFields \cup {"defined"}
        /\ \A f \in AddressFields :
              merged.result[f] =
                  IF truthy(merged.primary[f]) THEN merged.primary[f]
                  ELSE IF merged.fallback.defined /\ truthy(merged.fallback[f])
                       THEN merged.fallback[f]
                  ELSE ""

\* mergeAddress({address1: "A"}, {address1: "B", city: "C"}): address1 from the
\* primary, city from the fallback, the other fields empty
C14_Witness ==
    /\ orchCall = "mergeAddress"
    /\ merged.primary = address({"address1"}, "primary", Undef)
    /\ merged.fallback = address({"address1", "city"}, "payload", Undef)
    /\ merged.result.address1 = "primary"
    /\ merged.result.city = "payload"
    /\ merged.result.zip = ""

\* the data createDraftOrder was called with has no cart line
linesMissingOrEmpty == ~cartData.cartLines.present \/ Len(cartData.cartLines.items) = 0

\* a remote call of createDraftOrder has been issued
createIssued ==
    \E i \in DOMAIN orchIssued : orchIssued[i] \in {"customerCompanyContacts", "draftOrderCreate"}

\* C15 as stated: createDraftOrder called with cartLines missing or empty fails
\* with the error "No line items provided" and issues no remote call, in every
\* state of the service
C15_AsStated ==
    (createCalled /\ linesMissingOrEmpty) =>
        /\ orchPc = "failed"
        /\ orchError = "No line items provided"
        /\ ~createIssued

\* C15 amended: createDraftOrder called with cartLines missing or empty issues no
\* remote call (neither the company-contact lookup nor the draftOrderCreate
\* mutation) in any state of the service; it fails with "No line items provided"
\* when the Admin API client is configured and with "Admin API client not
\* configured" when it is not
C15_NoLinesNoCall ==
    (createCalled /\ linesMissingOrEmpty) =>
        /\ orchPc = "failed"
        /\ orchError = IF adminClient THEN "No line items provided"
                       ELSE "Admin API client not configured"
        /\ ~createIssued
        /\ input = NoInput
        /\ orchReturn = NoDraftOrder

\* createDraftOrder({cartLines: [], ...}) on a configured service whose data
\* would otherwise need the contact lookup
C15_Witness ==
    /\ orchCall = "createDraftOrder"
    /\ adminClient
    /\ cartData.cartLines.present
    /\ Len(cartData.cartLines.items) = 0
    /\ hasPurchasingEntity(cartData)
    /\ truthy(cartData.customer.id)
    /\ orchError = "No line items provided"

\* C16: the purchasing-entity block is attached exactly when both company id and
\* location id are present; its contact id is the id the lookup returned when a
\* customer id is present and the lookup found a profile of that company, the
\* raw customer id otherwise; the lookup is made only in that case and its
\* failure never fails createDraftOrder
C16_PurchasingEntity ==
    /\ remote.contact # "none" =>
          /\ truthy(cartData.purchasingEntity.companyId)
          /\ truthy(cartData.purchasingEntity.locationId)
          /\ truthy(cartData.customer.id)
          /\ orchPc # "fetchCompanyContactId"
          /\ orchError \in createErrors
    /\ input # NoInput =>
          /\ input.purchasingEntity.attached <=>
                (truthy(cartData.purchasingEntity.companyId)
                    /\ truthy(cartData.purchasingEntity.locationId))
          /\ input.purchasingEntity.attached =>
                /\ input.purchasingEntity.companyId = cartData.purchasingEntity.companyId
                /\ input.purchasingEntity.companyLocationId
                      = cartData.purchasingEntity.locationId
                /\ input.purchasingEntity.companyContactId =
                      IF truthy(cartData.customer.id) /\ remote.contact = "match"
                         THEN "gid://CompanyContact/1"
                         ELSE cartData.customer.id
                /\ truthy(cartData.customer.id) <=> remote.contact # "none"
          /\ ~input.purchasingEntity.attached => remote.contact = "none"

\* the lookup query was rejected and the draft order was created with the raw
\* customer id as contact
C16_Witness ==
    /\ remote.contact = "rejected"
    /\ orchPc = "done"
    /\ input.purchasingEntity.attached
    /\ input.purchasingEntity.companyContactId = "gid://Customer/payload"

\* C17: every draft order submitted is tagged 'quote-request', and 'cart-api' is
\* added exactly when the submitted order data was taken from the live cart
\* fetched with the request's cart token
C17_CartApiTag ==
    (orchCall = "draftOrders" /\ input # NoInput) =>
        /\ input.tags[1] = "quote-request"
        /\ (\E i \in DOMAIN input.tags : input.tags[i] = "cart-api") <=> cart.kind = "cart"

\* the body of the POST /draft-orders request has no cart lines, or a line
\* without quantity or variantId
bodyViolatesSchema ==
    \/ ~body.cartLines.present
    \/ Len(body.cartLines.items) = 0
    \/ \E i \in DOMAIN body.cartLines.items :
          \/ body.cartLines.items[i].quantity = NoQuantity
          \/ body.cartLines.items[i].variantId = Undef

C21_SchemaRejects ==
    /\ (orchCall = "draftOrders" /\ bodyViolatesSchema) =>
          /\ orchPc = "failed"
          /\ httpReply.code = 400
          /\ ~httpReply.success
          /\ payload = NoPayload
          /\ cartData = NoPayload
          /\ orchIssued = <<>>
          /\ input = NoInput
          /\ orchReturn = NoDraftOrder
    /\ (orchCall = "sendQuote" /\ quote.draftOrderId = Undef) =>
          /\ orchPc = "failed"
          /\ httpReply.code = 400
          /\ ~httpReply.success
          /\ orchError \notin {"Admin API client not configured",
                                "Shopify services not configured"}
          /\ orchIssued = <<>>
          /\ variables = NoVariables
          /\ orchReturn = NoDraftOrder

\* a body whose only line has no quantity is answered 400 on a configured
\* service, with nothing invoked
C21_Witness ==
    /\ orchCall = "draftOrders"
    /\ servicesOk /\ adminClient
    /\ body.cartLines.present
    /\ Len(body.cartLines.items) = 1
    /\ body.cartLines.items[1].quantity = NoQuantity
    /\ body.cartLines.items[1].variantId # Undef
    /\ httpReply.code = 400
    /\ orchIssued = <<>>

\* C23: a missing Admin API client is reported as HTTP 500, not 400, by POST
\* /send-quote, as on the other endpoints
C23_ConfigErrorIs500 ==
    (orchCall \in {"draftOrders", "sendQuote"}
        /\ orchError = "Admin API client not configured") => httpReply.code = 500

\* C24: sendInvoice forwards only the non-empty email options: to, from, subject
\* and customMessage exactly when they are non-empty, bcc exactly when it is a
\* non-empty list, and no email variable at all when no option is non-empty
C24_OnlyNonEmptyForwarded ==
    variables.issued =>
        LET o == quote.email
            e == variables.email
            nonEmpty == {k \in {"to", "from", "subject", "customMessage"} :
                            o[k] \notin {Undef, ""}}
            bccNonEmpty == o.bcc.defined /\ o.bcc.list # <<>>
        IN /\ variables.id = quote.draftOrderId
           /\ \A k \in {"to", "from", "subject", "customMessage"} :
                 e[k] = IF k \in nonEmpty THEN o[k] ELSE Undef
           /\ e.bcc.defined <=> bccNonEmpty
           /\ e.bcc.list = IF bccNonEmpty THEN o.bcc.list ELSE <<>>
           /\ e.defined <=> (nonEmpty # {} \/ bccNonEmpty)

\* the call of the background task when no bcc address is configured, with an
\* empty recipient on top: the mutation is issued without email variable
C24_Witness ==
    /\ orchCall = "sendInvoice"
    /\ variables.issued
    /\ quote.email.defined
    /\ quote.email.bcc = [defined |-> TRUE, list |-> <<>>]
    /\ quote.email.to = ""
    /\ quote.email.subject = Undef
    /\ variables.email = NoEmail
    /\ orchIssued = <<"draftOrderInvoiceSend">>

\* C28: a request whose body passes the schema (at least one cart line with
\* quantity and variantId) never fails with "No line items provided", whatever
\* the cart lookup by token returns
C28_ValidBodyHasLines ==
    (orchCall = "draftOrders" /\ ~bodyViolatesSchema) =>
        orchError # "No line items provided"

(***************************************************************************)
(* Invoice data properties                                                 *)
(***************************************************************************)
\* the positions of the digits of the name handed to the document
digitAt == {i \in DOMAIN order.name.chars : order.name.chars[i] \in Digits}

\* C25: generateInvoiceNumber(name, prefix) returns the prefix followed by the
\* first run of digits of the draft order name ("#D123" with the default prefix
\* gives "INV-EE-123"); when the name is missing or has no digit it returns the
\* prefix followed by a 6-digit time-based number; the numeric part is never
\* empty
C25_InvoiceNumber ==
    invPc \in {"filename", "done"} =>
        LET c == order.name.chars
            num == templateData.invoiceNumber
        IN /\ num.prefix = IF templateData.prefix = Undef THEN "INV-EE-"
                            ELSE templateData.prefix
           /\ IF order.name.defined /\ digitAt # {}
                 THEN LET i == CHOOSE a \in digitAt : \A b \in digitAt : a <= b
                          run == {k \in i..Len(c) : \A h \in i..k : h \in digitAt}
                          j == CHOOSE a \in run : \A b \in run : b <= a
                      IN num.number = SubSeq(c, i, j)
                 ELSE /\ Len(num.number) = 6
                      /\ \A k \in 1..6 : num.number[k] = templateData.now[7 + k]
           /\ num.number # <<>>
           /\ \A k \in DOMAIN num.number : num.number[k] \in Digits
           /\ (c = <<"#", "D", "1", "2", "3">> /\ templateData.prefix = Undef) =>
                 num = [prefix |-> "INV-EE-", number |-> <<"1", "2", "3">>]

\* a name with two digit groups under a configured prefix: the document
\* carries the first group
C25_Witness ==
    /\ invPc = "done"
    /\ order.name.chars = <<"1", "D", "2">>
    /\ templateData.prefix = "RE-"
    /\ templateData.invoiceNumber = [prefix |-> "RE-", number |-> <<"1">>]

\* C26: the invoice number of the upload filename vat_invoice_{invoiceNumber}.pdf
\* is the invoice number printed on the rendered document, for every draft
\* order name and every configured prefix
C26_SameInvoiceNumber ==
    invPc = "done" => fileNumber = templateData.invoiceNumber

\* C29: for one remote draft order, the document derived in the POST
\* /print-quote background flow equals the one derived by POST /print-quote/
\* from-draft: both flows hand generateAndAttachPdf a projection with the same
\* fields, and the discount block is present in one exactly when in the other
C29_SameProjection ==
    invPc \in {"filename", "done"} =>
        /\ order = formatDraftOrderResponse(createSelection(remoteOrder))
        /\ order = formatDraftOrderResponse(fetchSelection(remoteOrder))
        /\ templateData.discount.present <=> remoteOrder.totalDiscountsSet = "5.0"

(***************************************************************************)
(* Rasterizer properties                                                   *)
(***************************************************************************)
launchesInProgress == {t \in Tasks : pc[t] = "launching"}

settled(t) == pc[t] \in {"idle", "done", "failed"}

\* C1: at most one launch is in progress at any time, so concurrent
\* getBrowser() calls never bring up two browsers side by side
C1_SingleLaunch ==
    /\ Cardinality(launchesInProgress) <= 1
    /\ Cardinality(connected) <= 1

\* C7: a renderHtmlToPdf call that has finished, with PDF bytes or with a
\* failure, has no page left open; when all calls have finished no page is open
C7_NoPageLeak ==
    \A t \in Tasks : pc[t] \in {"done", "failed"} => pageOf[t] = NoBrowser

\* C8: when closeBrowser() completes the stored handle is null, whatever the
\* state it was called in (never launched, connected, present but disconnected)
C8_CloseClearsHandle ==
    [][(pcClose # "returned" /\ pcClose' = "returned") => browser' = NoBrowser]_vars

\* C9: once the onClose hook has run and every in-flight call has settled, no
\* launched browser is still running
C9_AllTornDown ==
    (hookDone /\ pcClose = "idle" /\ \A t \in Tasks : settled(t)) => connected = {}

====
